---- MODULE Spec2Model ----
(* Model of chess_game/board_item.py: the BoardItem class (logical chess     *)
(* position, 10x12 state grid, 19x23 node grid, capture and promotion        *)
(* bookkeeping, A* path planning) and the callers that drive it.             *)
EXTENDS Integers, Sequences, FiniteSets, TLC

VARIABLES chess_board, captured_white, captured_black, white_promos,
          black_promos, state_board, node_grid, path_seq, last_op, last_uci

\* the serial link to the motion controller and the magnet's servo, as
\* send_gcode_line and wait_until_idle drive them (game_loop.py)
VARIABLES line_no, pc, tx, rx, moving, servo, polls

link == <<line_no, pc, tx, rx, moving, servo, polls>>

\* the locals of run_game (game_loop.py) and of interpret_human_move
\* (human_planning_good.py, with the sensor matrix it reads)
VARIABLES run, interp

frames == <<run, interp>>

vars == <<chess_board, captured_white, captured_black, white_promos,
          black_promos, state_board, node_grid, path_seq, last_op, last_uci,
          line_no, pc, tx, rx, moving, servo, polls, run, interp>>

\* the link when a game starts: the magnet lowered (servo_down of run_game),
\* the controller homed and at rest, its answers read, nothing in transit
LinkInit ==
    /\ line_no = 0
    /\ pc = "call"
    /\ tx = <<>>
    /\ rx = <<>>
    /\ moving = FALSE
    /\ servo = "down"
    /\ polls = 0

(***************************************************************************)
(* Bounds of the exploration.                                              *)
(***************************************************************************)
\* number of moves a game may take away from the recorded games
MaxFree == 1

(***************************************************************************)
(* Program constants.                                                      *)
(***************************************************************************)
state_rows == 10
state_cols == 12
node_rows == 19
node_cols == 23

None == "None"
WHITE == TRUE
BLACK == FALSE

WhiteSymbols == {"P", "N", "B", "R", "Q", "K"}
BlackSymbols == {"p", "n", "b", "r", "q", "k"}
PieceSymbols == WhiteSymbols \cup BlackSymbols

\* str.upper() on the strings a grid cell or a promotion letter can hold
Upper(s) ==
    CASE s = "p" -> "P" [] s = "n" -> "N" [] s = "b" -> "B"
      [] s = "r" -> "R" [] s = "q" -> "Q" [] s = "k" -> "K"
      [] OTHER -> s

\* str(n) for the integers the program formats
StrTab == [n \in 0..400 |-> ToString(n)]
Str(n) == StrTab[n]

\* str.isdigit() on the strings a grid cell can hold
Digits == {StrTab[n] : n \in 0..16}
IsDigit(cell) == cell \in Digits

Abs(x) == IF x < 0 THEN -x ELSE x
Sgn(x) == IF x < 0 THEN -1 ELSE IF x > 0 THEN 1 ELSE 0
Max(a, b) == IF a > b THEN a ELSE b
MinOf(S) == CHOOSE x \in S : \A y \in S : x <= y

(***************************************************************************)
(* The chess-rules collaborator (python-chess), as far as BoardItem uses   *)
(* it: square arithmetic, piece_at, parse_uci (with its legality check)    *)
(* and push.                                                               *)
(***************************************************************************)
Squares == 0..63
square(file, rank) == rank * 8 + file
square_file(sq) == sq % 8
square_rank(sq) == sq \div 8

Color(p) == p \in WhiteSymbols
PieceType(p) == Upper(p)

FileIdx == [ch \in {"a","b","c","d","e","f","g","h"} |->
    CASE ch = "a" -> 0 [] ch = "b" -> 1 [] ch = "c" -> 2 [] ch = "d" -> 3
      [] ch = "e" -> 4 [] ch = "f" -> 5 [] ch = "g" -> 6 [] ch = "h" -> 7]
RankIdx == [ch \in {"1","2","3","4","5","6","7","8"} |->
    CASE ch = "1" -> 0 [] ch = "2" -> 1 [] ch = "3" -> 2 [] ch = "4" -> 3
      [] ch = "5" -> 4 [] ch = "6" -> 5 [] ch = "7" -> 6 [] ch = "8" -> 7]
\* promotion letters Move.from_uci accepts (index of the letter in the
\* piece-symbol table; pawn and king parse but are never legal)
PromoLetters == {"p", "n", "b", "r", "q", "k"}

NullUci == <<"0", "0", "0", "0">>

\* Move.from_uci: does the string parse into a move at all
UciParses(u) ==
    \/ u = NullUci
    \/ /\ Len(u) \in {4, 5}
       /\ u[1] \in DOMAIN FileIdx /\ u[2] \in DOMAIN RankIdx
       /\ u[3] \in DOMAIN FileIdx /\ u[4] \in DOMAIN RankIdx
       /\ Len(u) = 5 => u[5] \in PromoLetters
       /\ <<u[1], u[2]>> # <<u[3], u[4]>>

NullMove == [from_square |-> 0, to_square |-> 0, promotion |-> None, null |-> TRUE]

FromUci(u) ==
    IF u = NullUci THEN NullMove
    ELSE [from_square |-> square(FileIdx[u[1]], RankIdx[u[2]]),
          to_square   |-> square(FileIdx[u[3]], RankIdx[u[4]]),
          promotion   |-> IF Len(u) = 5 THEN u[5] ELSE None,
          null        |-> FALSE]

\* the standard starting position
StartPieces ==
    [sq \in Squares |->
        LET f == square_file(sq)
            r == square_rank(sq)
            back == <<"R", "N", "B", "Q", "K", "B", "N", "R">>
            backb == <<"r", "n", "b", "q", "k", "b", "n", "r">>
        IN CASE r = 0 -> back[f + 1]
             [] r = 1 -> "P"
             [] r = 6 -> "p"
             [] r = 7 -> backb[f + 1]
             [] OTHER -> None]

StartBoard ==
    [pieces |-> StartPieces, turn |-> WHITE,
     castling_rights |-> {0, 7, 56, 63},
     ep_square |-> -1, move_stack |-> <<>>]

\* a missing square (python's None for ep_square or king()) is written -1
piece_at(cb, sq) == cb.pieces[sq]

\* squares strictly between two squares on a common rank, file or diagonal
ClearLine(pcs, s, t) ==
    LET df == square_file(t) - square_file(s)
        dr == square_rank(t) - square_rank(s)
        n  == Max(Abs(df), Abs(dr))
    IN \A k \in 1..(n - 1) :
         pcs[square(square_file(s) + k * Sgn(df), square_rank(s) + k * Sgn(dr))] = None

\* does the piece on s attack square t
Attacks(pcs, s, t) ==
    LET p  == pcs[s]
        df == square_file(t) - square_file(s)
        dr == square_rank(t) - square_rank(s)
        ty == PieceType(p)
    IN /\ s # t
       /\ CASE ty = "P" -> Abs(df) = 1 /\ dr = (IF Color(p) THEN 1 ELSE -1)
            [] ty = "N" -> {Abs(df), Abs(dr)} = {1, 2}
            [] ty = "K" -> Max(Abs(df), Abs(dr)) = 1
            [] ty = "B" -> Abs(df) = Abs(dr) /\ ClearLine(pcs, s, t)
            [] ty = "R" -> (df = 0 \/ dr = 0) /\ ClearLine(pcs, s, t)
            [] ty = "Q" -> (df = 0 \/ dr = 0 \/ Abs(df) = Abs(dr)) /\ ClearLine(pcs, s, t)
            [] OTHER -> FALSE

is_attacked_by(pcs, color, t) ==
    \E s \in Squares : pcs[s] # None /\ Color(pcs[s]) = color /\ Attacks(pcs, s, t)

KingSquare(pcs, color) ==
    LET k == IF color THEN "K" ELSE "k"
    IN IF \E s \in Squares : pcs[s] = k
       THEN CHOOSE s \in Squares : pcs[s] = k
       ELSE -1

is_castling(cb, m) ==
    /\ PieceType(cb.pieces[m.from_square]) = "K"
    /\ Abs(square_file(m.from_square) - square_file(m.to_square)) > 1

is_en_passant(cb, m) ==
    /\ cb.ep_square = m.to_square
    /\ PieceType(cb.pieces[m.from_square]) = "P"
    /\ Abs(m.to_square - m.from_square) \in {7, 9}
    /\ cb.pieces[m.to_square] = None

\* the piece placement after a move (Board.push)
PiecesAfter(cb, m) ==
    LET pcs   == cb.pieces
        p     == pcs[m.from_square]
        white == Color(p)
        placed == IF m.promotion # None
                  THEN (IF white THEN Upper(m.promotion) ELSE m.promotion)
                  ELSE p
        rank  == square_rank(m.from_square)
        kside == square_file(m.to_square) > square_file(m.from_square)
        rookFrom == square(IF kside THEN 7 ELSE 0, rank)
        rookTo   == square(IF kside THEN 5 ELSE 3, rank)
        epVictim == square(square_file(m.to_square), rank)
    IN IF m.null THEN pcs
       ELSE IF is_castling(cb, m)
       THEN [sq \in Squares |->
               CASE sq = m.to_square -> p
                 [] sq = rookTo -> pcs[rookFrom]
                 [] sq \in {m.from_square, rookFrom} -> None
                 [] OTHER -> pcs[sq]]
       ELSE [sq \in Squares |->
               CASE sq = m.to_square -> placed
                 [] sq = m.from_square -> None
                 [] sq = epVictim /\ is_en_passant(cb, m) -> None
                 [] OTHER -> pcs[sq]]

\* Board.generate_castling_moves, for the standard starting squares
CastlingLegal(cb, m) ==
    LET pcs   == cb.pieces
        white == cb.turn
        rank  == IF white THEN 0 ELSE 7
        ksq   == square(4, rank)
        kside == square_file(m.to_square) = 6
        rook  == square(IF kside THEN 7 ELSE 0, rank)
        empty == IF kside THEN {square(5, rank), square(6, rank)}
                 ELSE {square(1, rank), square(2, rank), square(3, rank)}
        kpath == IF kside THEN {ksq, square(5, rank), square(6, rank)}
                 ELSE {ksq, square(3, rank), square(2, rank)}
    IN /\ m.from_square = ksq
       /\ m.to_square \in {square(6, rank), square(2, rank)}
       /\ pcs[ksq] = (IF white THEN "K" ELSE "k")
       /\ rook \in cb.castling_rights
       /\ pcs[rook] = (IF white THEN "R" ELSE "r")
       /\ \A sq \in empty : pcs[sq] = None
       /\ \A sq \in kpath : ~is_attacked_by(pcs, ~white, sq)

\* Board.generate_pseudo_legal_moves restricted to one pawn move
PawnPseudoLegal(cb, m) ==
    LET pcs   == cb.pieces
        white == cb.turn
        dir   == IF white THEN 1 ELSE -1
        ff    == square_file(m.from_square)
        fr    == square_rank(m.from_square)
        tf    == square_file(m.to_square)
        tr    == square_rank(m.to_square)
        last  == IF white THEN 7 ELSE 0
        home  == IF white THEN 1 ELSE 6
    IN /\ (tr = last) <=> (m.promotion \in {"q", "r", "b", "n"})
       /\ \/ /\ tf = ff /\ tr = fr + dir /\ pcs[m.to_square] = None
          \/ /\ tf = ff /\ fr = home /\ tr = fr + 2 * dir
             /\ pcs[square(ff, fr + dir)] = None /\ pcs[m.to_square] = None
          \/ /\ Abs(tf - ff) = 1 /\ tr = fr + dir
             /\ pcs[m.to_square] # None /\ Color(pcs[m.to_square]) # white
          \/ /\ Abs(tf - ff) = 1 /\ tr = fr + dir
             /\ cb.ep_square = m.to_square /\ pcs[m.to_square] = None
             /\ fr = (IF white THEN 4 ELSE 3)

\* Board.is_pseudo_legal
is_pseudo_legal(cb, m) ==
    LET pcs == cb.pieces
        p   == pcs[m.from_square]
    IN /\ ~m.null
       /\ p # None
       /\ Color(p) = cb.turn
       /\ m.promotion # None =>
            /\ PieceType(p) = "P"
            /\ square_rank(m.to_square) = (IF cb.turn THEN 7 ELSE 0)
       /\ \/ PieceType(p) = "K" /\ m.promotion = None /\ CastlingLegal(cb, m)
          \/ /\ ~(pcs[m.to_square] # None /\ Color(pcs[m.to_square]) = cb.turn)
             /\ IF PieceType(p) = "P" THEN PawnPseudoLegal(cb, m)
                ELSE Attacks(pcs, m.from_square, m.to_square)

\* Board.is_legal: pseudo-legal and the mover's king is not left attacked
is_legal(cb, m) ==
    /\ is_pseudo_legal(cb, m)
    /\ LET after == PiecesAfter(cb, m)
           ksq   == KingSquare(after, cb.turn)
       IN ksq = -1 \/ ~is_attacked_by(after, ~cb.turn, ksq)

\* Board._from_chess960 as applied by parse_uci: king-takes-rook notation
\* is read as the castling move
FromChess960(cb, m) ==
    IF m.promotion = None /\ m.from_square \in {4, 60}
       /\ PieceType(cb.pieces[m.from_square]) = "K"
       /\ m.to_square \in {m.from_square + 3, m.from_square - 4}
    THEN [m EXCEPT !.to_square = IF m.to_square = m.from_square + 3
                                 THEN m.from_square + 2 ELSE m.from_square - 2]
    ELSE m

\* Board.parse_uci: the move returned; raises unless ParseOk
parse_uci(cb, u) ==
    IF u = NullUci THEN NullMove ELSE FromChess960(cb, FromUci(u))

ParseOk(cb, u) ==
    /\ UciParses(u)
    /\ u = NullUci \/ is_legal(cb, parse_uci(cb, u))

\* Board.push
push(cb, m) ==
    LET p     == cb.pieces[m.from_square]
        white == cb.turn
        lost  == IF m.null THEN {}
                 ELSE {m.from_square, m.to_square} \cup
                      (IF PieceType(p) = "K"
                       THEN (IF white THEN {0, 7} ELSE {56, 63}) ELSE {})
        dbl   == /\ ~m.null /\ PieceType(p) = "P"
                 /\ Abs(m.to_square - m.from_square) = 16
    IN [pieces |-> PiecesAfter(cb, m),
        turn |-> ~cb.turn,
        castling_rights |-> cb.castling_rights \ lost,
        ep_square |-> IF dbl THEN (m.from_square + m.to_square) \div 2 ELSE -1,
        move_stack |-> Append(cb.move_stack, m)]


(***************************************************************************)
(* BoardItem: the bookkeeping and the two grids.                           *)
(***************************************************************************)
\* preallocated capture square indices (row, col) of the state grid
black_captures ==
    << <<3,1>>, <<2,1>>, <<1,1>>, <<0,1>>, <<0,2>>, <<0,3>>, <<0,4>>, <<0,5>>,
       <<0,6>>, <<0,7>>, <<0,8>>, <<0,9>>, <<0,10>>, <<1,10>>, <<2,10>>, <<3,10>> >>
white_captures ==
    << <<6,1>>, <<7,1>>, <<8,1>>, <<9,1>>, <<9,2>>, <<9,3>>, <<9,4>>, <<9,5>>,
       <<9,6>>, <<9,7>>, <<9,8>>, <<9,9>>, <<9,10>>, <<8,10>>, <<7,10>>, <<6,10>> >>

\* starting promotion piece layout order
InitWhitePromos == <<"B", "N", "R", "Q", "Q", "Q", "Q", "B", "N", "R">>
InitBlackPromos == <<"b", "n", "r", "q", "q", "q", "q", "b", "n", "r">>

StateCells == (0..(state_rows - 1)) \X (0..(state_cols - 1))
NodeCells == (0..(node_rows - 1)) \X (0..(node_cols - 1))

\* the index (1-based) of a cell in a slot table, 0 if it is not in it
SlotIndex(caps, cell) ==
    IF \E i \in 1..Len(caps) : caps[i] = cell
    THEN CHOOSE i \in 1..Len(caps) : caps[i] = cell
    ELSE 0
\* _populate_state_board with the slot numbers written over every slot
populate_state_board_relabel(cb, cw, cbl, wp, bp) ==
    [cell \in StateCells |->
        LET r == cell[1]
            c == cell[2]
            onBoard == r \in 1..8 /\ c \in 2..9
            piece == IF onBoard THEN piece_at(cb, square(c - 2, 7 - (r - 1))) ELSE None
            l1 == IF onBoard /\ piece # None THEN piece ELSE "."
            l2 == IF c = 0 /\ r < Len(wp) THEN wp[r + 1] ELSE l1
            l3 == IF c = 11 /\ r < Len(bp) THEN bp[r + 1] ELSE l2
            ib == SlotIndex(black_captures, cell)
            l4 == IF ib # 0 /\ ib <= Len(cbl) THEN cbl[ib] ELSE l3
            iw == SlotIndex(white_captures, cell)
            l5 == IF iw # 0 /\ iw <= Len(cw) THEN cw[iw] ELSE l4
            l6 == IF ib # 0 THEN Str(ib) ELSE l5
            l7 == IF iw # 0 THEN Str(iw) ELSE l6
        IN l7]
\* _populate_state_board with the ranks of the board written top down
populate_state_board_flipped(cb, cw, cbl, wp, bp) ==
    [cell \in StateCells |->
        LET r == cell[1]
            c == cell[2]
            onBoard == r \in 1..8 /\ c \in 2..9
            piece == IF onBoard THEN piece_at(cb, square(c - 2, r - 1)) ELSE None
            l1 == IF onBoard /\ piece # None THEN piece ELSE "."
            l2 == IF c = 0 /\ r < Len(wp) THEN wp[r + 1] ELSE l1
            l3 == IF c = 11 /\ r < Len(bp) THEN bp[r + 1] ELSE l2
            ib == SlotIndex(black_captures, cell)
            l4 == IF ib # 0 /\ ib <= Len(cbl) THEN cbl[ib] ELSE l3
            iw == SlotIndex(white_captures, cell)
            l5 == IF iw # 0 /\ iw <= Len(cw) THEN cw[iw] ELSE l4
            l6 == IF ib # 0 /\ l5 = "." THEN Str(ib) ELSE l5
            l7 == IF iw # 0 /\ l6 = "." THEN Str(iw) ELSE l6
        IN l7]

\* _populate_state_board: the grid written in the order of the code, a later
\* write overriding an earlier one
populate_state_board(cb, cw, cbl, wp, bp) ==
    [cell \in StateCells |->
        LET r == cell[1]
            c == cell[2]
            onBoard == r \in 1..8 /\ c \in 2..9
            piece == IF onBoard THEN piece_at(cb, square(c - 2, 7 - (r - 1))) ELSE None
            l1 == IF onBoard /\ piece # None THEN piece ELSE "."
            l2 == IF c = 0 /\ r < Len(wp) THEN wp[r + 1] ELSE l1
            l3 == IF c = 11 /\ r < Len(bp) THEN bp[r + 1] ELSE l2
            ib == SlotIndex(black_captures, cell)
            l4 == IF ib # 0 /\ ib <= Len(cbl) THEN cbl[ib] ELSE l3
            iw == SlotIndex(white_captures, cell)
            l5 == IF iw # 0 /\ iw <= Len(cw) THEN cw[iw] ELSE l4
            l6 == IF ib # 0 /\ l5 = "." THEN Str(ib) ELSE l5
            l7 == IF iw # 0 /\ l6 = "." THEN Str(iw) ELSE l6
        IN l7]
\* the node grid with every node showing the state cell it lies in or after
populate_node_grid_stretched(sb) ==
    [n \in NodeCells |-> sb[<<n[1] \div 2, n[2] \div 2>>]]
\* _populate_node_grid
populate_node_grid(sb) ==
    [n \in NodeCells |->
        IF n[1] % 2 = 0 /\ n[2] % 2 = 0 THEN sb[<<n[1] \div 2, n[2] \div 2>>] ELSE "."]

\* update_from_chess with every node copied from the state cell above it
update_from_chess_unspaced(cb, cw, cbl, wp, bp) ==
    LET sb == populate_state_board(cb, cw, cbl, wp, bp)
    IN [state_board |-> sb,
        node_grid |-> [n \in NodeCells |-> sb[<<n[1] \div 2, n[2] \div 2>>]]]

\* update_from_chess: the two grids rebuilt from the bookkeeping
update_from_chess(cb, cw, cbl, wp, bp) ==
    LET sb == populate_state_board(cb, cw, cbl, wp, bp)
    IN [state_board |-> sb, node_grid |-> populate_node_grid(sb)]

(***************************************************************************)
(* BoardItem.move_piece                                                    *)
(***************************************************************************)
\* the piece move_piece records as captured (None if there is none)
MoveCaptured(cb, move) ==
    LET moving_piece == piece_at(cb, move.from_square)
        captured_piece == piece_at(cb, move.to_square)
        from_rank == square_rank(move.from_square)
        from_file == square_file(move.from_square)
        to_file == square_file(move.to_square)
    IN IF /\ moving_piece # None /\ PieceType(moving_piece) = "P"
          /\ Abs(to_file - from_file) = 1 /\ captured_piece = None
       THEN piece_at(cb, square(to_file, from_rank))
       ELSE captured_piece

\* is_promotion of move_piece
MoveIsPromotion(cb, u, move) ==
    LET moving_piece == piece_at(cb, move.from_square)
    IN /\ moving_piece # None
       /\ PieceType(moving_piece) = "P"
       /\ (Len(u) = 5 \/ move.promotion # None)
\* the bank with the last entry of the promoted kind replaced by a pawn
ConsumePromo_last(promo_list, promo_char, pawn) ==
    LET hits == {i \in 1..Len(promo_list) : Upper(promo_list[i]) = promo_char}
    IN IF hits = {} THEN promo_list
       ELSE [promo_list EXCEPT ![CHOOSE i \in hits : \A j \in hits : j <= i] = pawn]
\* the bank put back to its first content before the entry is replaced
ConsumePromo_refilled(promo_list, promo_char, pawn) ==
    LET fresh == IF pawn = "P" THEN InitWhitePromos ELSE InitBlackPromos
        hits == {i \in 1..Len(fresh) : Upper(fresh[i]) = promo_char}
    IN IF hits = {} THEN fresh
       ELSE [fresh EXCEPT ![CHOOSE i \in hits : \A j \in hits : i <= j] = pawn]
\* the bank after the first entry of the promoted kind is replaced by a pawn
ConsumePromo(promo_list, promo_char, pawn) ==
    LET hits == {i \in 1..Len(promo_list) : Upper(promo_list[i]) = promo_char}
    IN IF hits = {} THEN promo_list
       ELSE [promo_list EXCEPT ![MinOf(hits)] = pawn]

\* the bookkeeping after move_piece(u); the grids are rebuilt from it
MovePieceState(cb, cw, cbl, wp, bp, u) ==
    LET move == parse_uci(cb, u)
        moving_piece == piece_at(cb, move.from_square)
        captured_piece == MoveCaptured(cb, move)
        promo == MoveIsPromotion(cb, u, move)
        promo_char == Upper(u[5])
        white == Color(moving_piece)
    IN [chess_board |-> push(cb, move),
        captured_white |-> IF captured_piece # None /\ Color(captured_piece) = WHITE
                           THEN Append(cw, captured_piece) ELSE cw,
        captured_black |-> IF captured_piece # None /\ Color(captured_piece) = BLACK
                           THEN Append(cbl, captured_piece) ELSE cbl,
        white_promos |-> IF promo /\ white THEN ConsumePromo(wp, promo_char, "P") ELSE wp,
        black_promos |-> IF promo /\ ~white THEN ConsumePromo(bp, promo_char, "p") ELSE bp]


(***************************************************************************)
(* BoardItem.plan_path: the pathfinder                                     *)
(***************************************************************************)
Dirs8 == {<<-1,0>>, <<1,0>>, <<0,-1>>, <<0,1>>, <<-1,-1>>, <<-1,1>>, <<1,-1>>, <<1,1>>}

\* the diagonal check of neighbors: the cells (r,nc), (nr,c), (nr,nc)
DiagBlocked(grid, r, c, nr, nc) ==
    \E q \in {<<r, nc>>, <<nr, c>>, <<nr, nc>>} :
        grid[q] \notin {".", Str(q[1] * q[2]), grid[<<nr, nc>>]}
\* plan_path.neighbors without the test of the cell's content
neighbors_any_cell(grid, r, c, goal) ==
    {n \in {<<r + d[1], c + d[2]>> : d \in Dirs8} :
        /\ 0 <= n[1] /\ n[1] < node_rows /\ 0 <= n[2] /\ n[2] < node_cols
        /\ (n[1] # r /\ n[2] # c) => ~DiagBlocked(grid, r, c, n[1], n[2])}
\* plan_path.neighbors over the four orthogonal directions only
neighbors_orthogonal(grid, r, c, goal) ==
    {n \in {<<r - 1, c>>, <<r + 1, c>>, <<r, c - 1>>, <<r, c + 1>>} :
        /\ 0 <= n[1] /\ n[1] < node_rows /\ 0 <= n[2] /\ n[2] < node_cols
        /\ (grid[n] = "." \/ IsDigit(grid[n]) \/ n = goal)}

\* plan_path.neighbors without the corner test of a diagonal step
neighbors_cut_corners(grid, r, c, goal) ==
    {n \in {<<r + d[1], c + d[2]>> : d \in Dirs8} :
        /\ 0 <= n[1] /\ n[1] < node_rows /\ 0 <= n[2] /\ n[2] < node_cols
        /\ (grid[n] = "." \/ IsDigit(grid[n]) \/ n = goal)}

\* plan_path.neighbors
neighbors(grid, r, c, goal) ==
    {n \in {<<r + d[1], c + d[2]>> : d \in Dirs8} :
        /\ 0 <= n[1] /\ n[1] < node_rows /\ 0 <= n[2] /\ n[2] < node_cols
        /\ (grid[n] = "." \/ IsDigit(grid[n]) \/ n = goal)
        /\ (n[1] # r /\ n[2] # c) => ~DiagBlocked(grid, r, c, n[1], n[2])}

\* plan_path.man_dist
man_dist(a, b) == Abs(a[1] - b[1]) + Abs(a[2] - b[2])

\* the order python gives two nodes (tuples compare lexicographically)
NodeKey(n) == n[1] * node_cols + n[2]

\* the least of a set of equally long paths in python's list order
RECURSIVE LexMinPath(_, _)
LexMinPath(S, i) ==
    IF Cardinality(S) = 1 THEN CHOOSE p \in S : TRUE
    ELSE LET k == MinOf({NodeKey(p[i]) : p \in S})
         IN LexMinPath({p \in S : NodeKey(p[i]) = k}, i + 1)

\* the entries of a set that are least in component i
LeastBy(S, i) ==
    LET least == MinOf({e[i] : e \in S})
    IN {e \in S : e[i] = least}

\* the entries of a set that are least by their node
LeastByNode(S) ==
    LET least == MinOf({NodeKey(e[3]) : e \in S})
    IN {e \in S : NodeKey(e[3]) = least}

\* among entries equal in f, g and node, the one with the least path
HeapPick(S) ==
    LET p == LexMinPath({e[4] : e \in S}, 1)
    IN CHOOSE e \in S : e[4] = p

\* heapq.heappop: the least entry (f, g, node, path) in tuple order
HeapMin(open_set) ==
    HeapPick(LeastByNode(LeastBy(LeastBy(open_set, 1), 2)))

\* the body of the while loop of astar for the entry m = (f, g, current,
\* path) taken from the heap
AStarPopped(grid, goal, st, m) ==
    IF m[3] \in st.visited THEN [st EXCEPT !.open_set = @ \ {m}]
    ELSE IF m[3] = goal THEN [st EXCEPT !.done = TRUE, !.path = m[4]]
    ELSE [st EXCEPT
             !.open_set = (@ \ {m}) \cup
                 {<<m[2] + 1 + man_dist(nbr, goal), m[2] + 1, nbr, Append(m[4], nbr)>> :
                     nbr \in neighbors(grid, m[3][1], m[3][2], goal) \ (st.visited \cup {m[3]})},
             !.visited = @ \cup {m[3]}]

\* one iteration of the while loop of astar; the result None is written
\* <<>> (astar returns no empty list otherwise)
AStarStep(grid, goal, st) ==
    IF st.open_set = {} THEN [st EXCEPT !.done = TRUE, !.path = <<>>]
    ELSE AStarPopped(grid, goal, st, HeapMin(st.open_set))

\* up to n iterations of the while loop, stopping when it returns
RECURSIVE AStarRun(_, _, _, _)
AStarRun(grid, goal, st, n) ==
    IF st.done THEN st
    ELSE IF n <= 1 THEN AStarStep(grid, goal, st)
    ELSE LET half == AStarRun(grid, goal, st, n \div 2)
         IN IF half.done THEN half ELSE AStarRun(grid, goal, half, n - n \div 2)

\* every pop takes an entry some expansion pushed, and a node is expanded once
MaxPops == 1 + 8 * node_rows * node_cols

\* plan_path.astar
astar(grid, start, goal) ==
    IF start = goal THEN <<start>>
    ELSE AStarRun(grid, goal,
                  [open_set |-> {<<man_dist(start, goal), 0, start, <<start>>>>},
                   visited |-> {}, done |-> FALSE, path |-> <<>>],
                  MaxPops).path

(***************************************************************************)
(* BoardItem._direct_path: breadth-first search over orthogonal steps      *)
(***************************************************************************)
Dirs4 == << <<-1,0>>, <<1,0>>, <<0,-1>>, <<0,1>> >>
\* the neighbours of _direct_path with only empty nodes let through
DirectNeighbors_empty_only(grid, current, end_node, visited) ==
    LET cand == [k \in 1..4 |-> <<current[1] + Dirs4[k][1], current[2] + Dirs4[k][2]>>]
        ok(n) == /\ 0 <= n[1] /\ n[1] < node_rows /\ 0 <= n[2] /\ n[2] < node_cols
                 /\ n \notin visited
                 /\ grid[n] = "."
    IN SelectSeq(cand, ok)

\* the neighbours one expansion appends to the queue, in the order of the code
DirectNeighbors(grid, current, end_node, visited) ==
    LET cand == [k \in 1..4 |-> <<current[1] + Dirs4[k][1], current[2] + Dirs4[k][2]>>]
        ok(n) == /\ 0 <= n[1] /\ n[1] < node_rows /\ 0 <= n[2] /\ n[2] < node_cols
                 /\ n \notin visited
                 /\ (grid[n] = "." \/ n = end_node)
    IN SelectSeq(cand, ok)

\* the queue entries (node, path) one round of pops appends: the entries
\* layer[k..] are popped in order, each marking the neighbours it appends
RECURSIVE DirectExpand(_, _, _, _, _, _)
DirectExpand(grid, end_node, layer, k, visited, appended) ==
    IF k > Len(layer) THEN <<appended, visited>>
    ELSE LET current == layer[k][1]
             path == layer[k][2]
             nbrs == DirectNeighbors(grid, current, end_node, visited)
         IN DirectExpand(grid, end_node, layer, k + 1,
                         visited \cup {nbrs[j] : j \in 1..Len(nbrs)},
                         appended \o [j \in 1..Len(nbrs) |-> <<nbrs[j], Append(path, nbrs[j])>>])

\* the while loop of _direct_path; the queue is first-in first-out, so it is
\* popped in rounds: the entries one step from the start, then two, ...
RECURSIVE DirectLoop(_, _, _, _)
DirectLoop(grid, end_node, layer, visited) ==
    IF layer = <<>> THEN <<>>
    ELSE LET hits == {k \in 1..Len(layer) : layer[k][1] = end_node}
         IN IF hits # {} THEN layer[MinOf(hits)][2]
            ELSE LET r == DirectExpand(grid, end_node, layer, 1, visited, <<>>)
                 IN DirectLoop(grid, end_node, r[1], r[2])
\* _direct_path with the queue seeded with an empty path
direct_path_headless(grid, start_node, end_node) ==
    IF start_node = end_node THEN <<start_node>>
    ELSE DirectLoop(grid, end_node, << <<start_node, <<>>>> >>, {})

\* _direct_path
direct_path(grid, start_node, end_node) ==
    IF start_node = end_node THEN <<start_node>>
    ELSE DirectLoop(grid, end_node, << <<start_node, <<start_node>>>> >>, {})

(***************************************************************************)
(* BoardItem.reset_board_physical                                          *)
(***************************************************************************)
\* starting_positions, in the order of the dictionary
starting_positions ==
    << <<"R", << <<8,2>>, <<8,9>>, <<2,0>>, <<9,0>> >> >>,
       <<"N", << <<8,3>>, <<8,8>>, <<1,0>>, <<8,0>> >> >>,
       <<"B", << <<8,4>>, <<8,7>>, <<0,0>>, <<7,0>> >> >>,
       <<"Q", << <<8,5>>, <<3,0>>, <<4,0>>, <<5,0>>, <<6,0>> >> >>,
       <<"K", << <<8,6>> >> >>,
       <<"P", [c \in 1..8 |-> <<7, c + 1>>] >>,
       <<"r", << <<1,2>>, <<1,9>>, <<2,11>>, <<9,11>> >> >>,
       <<"n", << <<1,3>>, <<1,8>>, <<1,11>>, <<8,11>> >> >>,
       <<"b", << <<1,4>>, <<1,7>>, <<0,11>>, <<7,11>> >> >>,
       <<"q", << <<1,5>>, <<3,11>>, <<4,11>>, <<5,11>>, <<6,11>> >> >>,
       <<"k", << <<1,6>> >> >>,
       <<"p", [c \in 1..8 |-> <<2, c + 1>>] >> >>

SeqRange(s) == {s[i] : i \in 1..Len(s)}

all_starting == UNION {SeqRange(starting_positions[k][2]) : k \in 1..Len(starting_positions)}

\* a set of state cells as a list in row-major order (the order of np.where
\* and of the comprehension over range(rows), range(cols))
RowMajor(S) ==
    SelectSeq([i \in 1..(state_rows * state_cols) |->
                  <<(i - 1) \div state_cols, (i - 1) % state_cols>>],
              LAMBDA cell : cell \in S)

CellNode(cell) == <<cell[1] * 2, cell[2] * 2>>

\* random_free_square: the list 'free'
FreeSquares(temp_board, locked_squares) ==
    RowMajor({cell \in StateCells :
                 /\ temp_board[cell] = "."
                 /\ cell \notin locked_squares
                 /\ cell \notin all_starting
                 /\ cell[2] \notin {0, state_cols - 1}})

\* the squares locked at the start: a piece standing on a starting square of
\* its kind
InitiallyLocked(temp_board) ==
    {cell \in StateCells :
        \E k \in 1..Len(starting_positions) :
            /\ temp_board[cell] = starting_positions[k][1]
            /\ cell \in SeqRange(starting_positions[k][2])}

\* one piece carried from a cell to another: the path found on the node grid
\* as it stands, then the tracking of both the copy and the node grid
Carry(st, from, to, occupant) ==
    [st EXCEPT
        !.reset_paths = Append(@, direct_path(st.node_grid, CellNode(from), CellNode(to))),
        !.temp_board = [@ EXCEPT ![to] = occupant, ![from] = "."],
        !.node_grid = [@ EXCEPT ![CellNode(to)] = occupant, ![CellNode(from)] = "."]]

\* the starting squares in the order the loops visit them, each with its kind
StartSquares ==
    LET Upto(k) == IF k = 0 THEN <<>>
                   ELSE [i \in 1..Len(starting_positions[k][2]) |->
                            <<starting_positions[k][1], starting_positions[k][2][i]>>]
    IN Upto(1) \o Upto(2) \o Upto(3) \o Upto(4) \o Upto(5) \o Upto(6)
       \o Upto(7) \o Upto(8) \o Upto(9) \o Upto(10) \o Upto(11) \o Upto(12)

\* the second loop, from the j-th starting square onwards: a wrong piece on a
\* starting square is carried to a free square; random.choice takes the
\* entry of the list that the draws (a list of numbers) give it; the squares
\* with nothing to carry are passed over
RECURSIVE ClearStarts(_, _, _)
ClearStarts(st, j, draws) ==
    LET Wrong(i) == /\ st.temp_board[StartSquares[i][2]] # "."
                    /\ st.temp_board[StartSquares[i][2]] # StartSquares[i][1]
        todo == {i \in j..Len(StartSquares) : Wrong(i)}
        free == FreeSquares(st.temp_board, st.locked_squares)
    IN IF todo = {} \/ free = <<>> THEN st
       ELSE LET i == CHOOSE x \in todo : \A y \in todo : x <= y
                sq == StartSquares[i][2]
                n == Len(st.reset_paths)
                free_sq == free[(draws[(n % Len(draws)) + 1] % Len(free)) + 1]
            IN CHOOSE done \in {ClearStarts(next, i + 1, draws) :
                                   next \in {Carry(st, sq, free_sq, st.temp_board[sq])}} : TRUE

\* the inner loop of the third loop: the i-th piece to its i-th target
RECURSIVE FillPairs(_, _, _, _, _)
FillPairs(st, piece, current_positions, target_sqs, i) ==
    IF i > Len(current_positions) \/ i > Len(target_sqs) THEN st
    ELSE CHOOSE done \in
             {FillPairs([moved EXCEPT !.locked_squares = @ \cup {target_sqs[i]}],
                        piece, current_positions, target_sqs, i + 1) :
                 moved \in {Carry(st, current_positions[i], target_sqs[i], piece)}} : TRUE

\* the third loop, at kind k onwards: the pieces of the kind not locked go to
\* the empty starting squares of the kind
RECURSIVE FillStarts(_, _)
FillStarts(st, k) ==
    IF k > Len(starting_positions) THEN st
    ELSE LET piece == starting_positions[k][1]
             valid_sqs == starting_positions[k][2]
             current_positions ==
                 {cell \in StateCells :
                     st.temp_board[cell] = piece /\ cell \notin st.locked_squares}
             target_sqs == SelectSeq(valid_sqs, LAMBDA sq : st.temp_board[sq] = ".")
         IN CHOOSE done \in
                {FillStarts(next, k + 1) :
                    next \in {FillPairs(st, piece, RowMajor(current_positions), target_sqs, 1)}} : TRUE

\* reset_board_physical: the paths collected, the copy of the state grid and
\* the node grid at the end
reset_board_physical(sb, ng, draws) ==
    CHOOSE done \in
        {FillStarts(cleared, 1) :
            cleared \in {ClearStarts(st, 1, draws) :
                            st \in {[temp_board |-> sb, node_grid |-> ng,
                                     locked_squares |-> InitiallyLocked(sb),
                                     reset_paths |-> <<>>]}}} : TRUE

(***************************************************************************)
(* BoardItem.plan_path: the legs of a move                                 *)
(***************************************************************************)
SquareNode(sq) == <<(8 - square_rank(sq)) * 2, (square_file(sq) + 2) * 2>>
\* the slot search that always answers the first slot
FreeSlotNode_first(sb, caps) == <<caps[1][1] * 2, caps[1][2] * 2>>

\* the node of the first capture slot that still shows its own number
\* (<<>> if there is none)
FreeSlotNode(sb, caps) ==
    LET free == {i \in 1..Len(caps) : sb[caps[i]] = Str(i)}
    IN IF free = {} THEN <<>>
       ELSE LET i == MinOf(free) IN <<caps[i][1] * 2, caps[i][2] * 2>>
\* the castling branch with the rook always put on the file below the king's
CastleLegs_rook_below(ng, start_sq, end_sq) ==
    LET sr == square_rank(start_sq)
        sc == square_file(start_sq)
        ec == square_file(end_sq)
        start_node == <<(8 - sr) * 2, (sc + 2) * 2>>
        end_node == <<(8 - sr) * 2, (ec + 2) * 2>>
        king_path == astar(ng, start_node, end_node)
        rook_start_sq == IF ec > sc THEN square(7, sr) ELSE square(0, sr)
        rook_end_sq == square(ec - 1, sr)
        rook_start_node == <<(8 - sr) * 2, (square_file(rook_start_sq) + 2) * 2>>
        rook_end_node == <<(8 - sr) * 2, (square_file(rook_end_sq) + 2) * 2>>
        saved == ng[end_node]
        blocked == [ng EXCEPT ![end_node] = "#"]
        rook_path == astar(blocked, rook_start_node, rook_end_node)
    IN [raised |-> FALSE,
        path_seq |-> << <<"castle_king", king_path>>, <<"castle_rook", rook_path>> >>,
        node_grid |-> [blocked EXCEPT ![end_node] = saved]]

\* the castling branch with the rook leg searched on the grid as it stands
CastleLegs_unblocked(ng, start_sq, end_sq) ==
    LET sr == square_rank(start_sq)
        sc == square_file(start_sq)
        ec == square_file(end_sq)
        start_node == <<(8 - sr) * 2, (sc + 2) * 2>>
        end_node == <<(8 - sr) * 2, (ec + 2) * 2>>
        king_path == astar(ng, start_node, end_node)
        rook_start_sq == IF ec > sc THEN square(7, sr) ELSE square(0, sr)
        rook_end_sq == IF ec > sc THEN square(ec - 1, sr) ELSE square(ec + 1, sr)
        rook_start_node == <<(8 - sr) * 2, (square_file(rook_start_sq) + 2) * 2>>
        rook_end_node == <<(8 - sr) * 2, (square_file(rook_end_sq) + 2) * 2>>
        rook_path == astar(ng, rook_start_node, rook_end_node)
    IN [raised |-> FALSE,
        path_seq |-> << <<"castle_king", king_path>>, <<"castle_rook", rook_path>> >>,
        node_grid |-> ng]
\* the castling branch with the king's destination left blocked
CastleLegs_block_left(ng, start_sq, end_sq) ==
    LET sr == square_rank(start_sq)
        sc == square_file(start_sq)
        ec == square_file(end_sq)
        start_node == <<(8 - sr) * 2, (sc + 2) * 2>>
        end_node == <<(8 - sr) * 2, (ec + 2) * 2>>
        king_path == astar(ng, start_node, end_node)
        rook_start_sq == IF ec > sc THEN square(7, sr) ELSE square(0, sr)
        rook_end_sq == IF ec > sc THEN square(ec - 1, sr) ELSE square(ec + 1, sr)
        rook_start_node == <<(8 - sr) * 2, (square_file(rook_start_sq) + 2) * 2>>
        rook_end_node == <<(8 - sr) * 2, (square_file(rook_end_sq) + 2) * 2>>
        blocked == [ng EXCEPT ![end_node] = "#"]
        rook_path == astar(blocked, rook_start_node, rook_end_node)
    IN [raised |-> FALSE,
        path_seq |-> << <<"castle_king", king_path>>, <<"castle_rook", rook_path>> >>,
        node_grid |-> blocked]

\* the castling branch: king leg, then the rook leg with the king's
\* destination blocked; the grid is the one left behind
CastleLegs(ng, start_sq, end_sq) ==
    LET sr == square_rank(start_sq)
        sc == square_file(start_sq)
        ec == square_file(end_sq)
        start_node == SquareNode(start_sq)
        end_node == SquareNode(end_sq)
        king_path == astar(ng, start_node, end_node)
        rook_start_sq == IF ec > sc THEN square(7, sr) ELSE square(0, sr)
        rook_end_sq == IF ec > sc THEN square(ec - 1, sr) ELSE square(ec + 1, sr)
        rook_start_node == <<(8 - sr) * 2, (square_file(rook_start_sq) + 2) * 2>>
        rook_end_node == <<(8 - sr) * 2, (square_file(rook_end_sq) + 2) * 2>>
        saved == ng[end_node]
        blocked == [ng EXCEPT ![end_node] = "#"]
        rook_path == astar(blocked, rook_start_node, rook_end_node)
    IN [raised |-> FALSE,
        path_seq |-> << <<"castle_king", king_path>>, <<"castle_rook", rook_path>> >>,
        node_grid |-> [blocked EXCEPT ![end_node] = saved]]
\* the capture leg with en passant forgotten: only a piece on the destination
\* square is carried off
CaptureLegs_no_en_passant(cb, sb, ng, start_sq, end_sq) ==
    LET end_node == <<(8 - square_rank(end_sq)) * 2, (square_file(end_sq) + 2) * 2>>
        at_end == piece_at(cb, end_sq)
        caps == IF Color(at_end) = WHITE THEN white_captures ELSE black_captures
        slot == FreeSlotNode(sb, caps)
    IN IF at_end = None \/ slot = <<>> THEN <<>>
       ELSE << <<"capture", astar(ng, end_node, slot)>> >>

\* the capture leg with the en passant pawn fetched from the destination
\* square
CaptureLegs_from_destination(cb, sb, ng, start_sq, end_sq) ==
    LET piece == piece_at(cb, start_sq)
        sr == square_rank(start_sq)
        sc == square_file(start_sq)
        ec == square_file(end_sq)
        end_node == <<(8 - square_rank(end_sq)) * 2, (ec + 2) * 2>>
        at_end == piece_at(cb, end_sq)
        is_ep == PieceType(piece) = "P" /\ Abs(ec - sc) = 1 /\ at_end = None
        captured_piece == IF is_ep THEN piece_at(cb, square(ec, sr)) ELSE at_end
        caps == IF Color(captured_piece) = WHITE THEN white_captures ELSE black_captures
        slot == FreeSlotNode(sb, caps)
    IN IF captured_piece = None \/ slot = <<>> THEN <<>>
       ELSE << <<"capture", astar(ng, end_node, slot)>> >>

\* the capture leg (a sequence of zero or one legs)
CaptureLegs(cb, sb, ng, start_sq, end_sq) ==
    LET piece == piece_at(cb, start_sq)
        sr == square_rank(start_sq)
        sc == square_file(start_sq)
        ec == square_file(end_sq)
        end_node == SquareNode(end_sq)
        at_end == piece_at(cb, end_sq)
        is_ep == PieceType(piece) = "P" /\ Abs(ec - sc) = 1 /\ at_end = None
        captured_piece == IF is_ep THEN piece_at(cb, square(ec, sr)) ELSE at_end
        caps == IF Color(captured_piece) = WHITE THEN white_captures ELSE black_captures
        slot == FreeSlotNode(sb, caps)
        captured_node == <<(8 - sr) * 2, (ec + 2) * 2>>
    IN IF captured_piece = None \/ slot = <<>> THEN <<>>
       ELSE IF is_ep THEN << <<"capture", astar(ng, captured_node, slot)>> >>
       ELSE << <<"capture", astar(ng, end_node, slot)>> >>

\* the row of the first bank entry of the promoted kind (-1 if none)
PromoRow(sb, promo_col, promotion) ==
    LET rows == {r \in 0..(state_rows - 1) : Upper(sb[<<r, promo_col>>]) = Upper(promotion)}
    IN IF rows = {} THEN -1 ELSE MinOf(rows)

\* the promotion branch: pawn to the lane, bank piece to the board with the
\* lane node blocked, pawn into the bank
PromoLegs(cb, sb, ng, start_sq, end_sq, promotion) ==
    LET piece == piece_at(cb, start_sq)
        start_node == SquareNode(start_sq)
        end_node == SquareNode(end_sq)
        promo_col == IF Color(piece) = WHITE THEN 0 ELSE 11
        row == PromoRow(sb, promo_col, promotion)
        promo_node == <<row * 2, promo_col * 2>>
        side_col == IF promo_col = 0 THEN 1 ELSE node_cols - 2
        side_node == <<promo_node[1], side_col>>
        pawn_path == astar(ng, start_node, side_node)
        saved == ng[side_node]
        blocked == [ng EXCEPT ![side_node] = "#"]
        piece_path == astar(blocked, promo_node, end_node)
    IN IF row = -1 THEN [raised |-> TRUE, path_seq |-> <<>>, node_grid |-> ng]
       ELSE [raised |-> FALSE,
             path_seq |-> << <<"promotion_pawn", pawn_path>>,
                             <<"promotion_piece", piece_path>>,
                             <<"promotion_pawn_final", <<side_node, promo_node>>>> >>,
             node_grid |-> [blocked EXCEPT ![side_node] = saved]]
\* plan_path with the captured piece relocated after the mover has arrived
plan_path_capture_last(cb, sb, ng, u) ==
    LET move == parse_uci(cb, u)
        start_sq == move.from_square
        end_sq == move.to_square
        piece == piece_at(cb, start_sq)
        sc == square_file(start_sq)
        ec == square_file(end_sq)
        is_promo == Len(u) = 5 /\ piece # None /\ PieceType(piece) = "P"
    IN IF piece # None /\ PieceType(piece) = "K" /\ Abs(ec - sc) > 1
       THEN CastleLegs(ng, start_sq, end_sq)
       ELSE IF piece = None
       THEN [raised |-> TRUE, path_seq |-> <<>>, node_grid |-> ng]
       ELSE LET cap == CaptureLegs(cb, sb, ng, start_sq, end_sq)
            IN IF is_promo
               THEN LET pl == PromoLegs(cb, sb, ng, start_sq, end_sq, u[5])
                    IN [pl EXCEPT !.path_seq = IF pl.raised THEN <<>> ELSE pl.path_seq \o cap]
               ELSE [raised |-> FALSE,
                     path_seq |-> << <<"move", astar(ng, SquareNode(start_sq),
                                                     SquareNode(end_sq))>> >> \o cap,
                     node_grid |-> ng]

\* plan_path(u) for a string parse_uci accepts: whether it raised, the legs
\* returned and the node grid left behind
plan_path(cb, sb, ng, u) ==
    LET move == parse_uci(cb, u)
        start_sq == move.from_square
        end_sq == move.to_square
        piece == piece_at(cb, start_sq)
        sc == square_file(start_sq)
        ec == square_file(end_sq)
        is_promo == Len(u) = 5 /\ piece # None /\ PieceType(piece) = "P"
    IN IF piece # None /\ PieceType(piece) = "K" /\ Abs(ec - sc) > 1
       THEN CastleLegs(ng, start_sq, end_sq)
       ELSE IF piece = None
       THEN [raised |-> TRUE, path_seq |-> <<>>, node_grid |-> ng]
       ELSE LET cap == CaptureLegs(cb, sb, ng, start_sq, end_sq)
            IN IF is_promo
               THEN LET pl == PromoLegs(cb, sb, ng, start_sq, end_sq, u[5])
                    IN [pl EXCEPT !.path_seq = IF pl.raised THEN <<>> ELSE cap \o pl.path_seq]
               ELSE [raised |-> FALSE,
                     path_seq |-> cap \o << <<"move", astar(ng, SquareNode(start_sq),
                                                            SquareNode(end_sq))>> >>,
                     node_grid |-> ng]


(***************************************************************************)
(* generate_gcode: the command lines of a leg list.  A motion line is      *)
(* <<word, x, y>> with the coordinates as the ".3f" format prints them,    *)
(* in thousandths; the sentinels are <<"servo_up">> and <<"servo_down">>.  *)
(* The lines are joined with "\n" and split again by the callers, which    *)
(* gives the same list back: no line is empty or holds a line break.       *)
(***************************************************************************)
\* node_spacing, the default of generate_gcode, which every caller uses
node_spacing == 1

\* f"{v:.3f}" for v = index * node_spacing: the value in thousandths
Fmt3(index) == index * node_spacing * 1000

\* f"G0 X{x0:.3f} Y{y0:.3f}" and f"G1 X{x:.3f} Y{y:.3f} F150"
G0Line(node) == <<"G0", Fmt3(node[1]), Fmt3(node[2])>>
G1Line(node) == <<"G1", Fmt3(node[1]), Fmt3(node[2]), 150>>
\* the lines of one leg with the magnet worked even where there is no path
GcodeLeg_engage_empty(path) ==
    IF path = <<>> THEN << <<"servo_up">>, <<"servo_down">> >>
    ELSE <<G0Line(path[1]), <<"servo_up">>>>
         \o [i \in 1..Len(path) |-> G1Line(path[i])]
         \o << <<"servo_down">> >>

\* the lines of one leg with the start node only approached, not traced
GcodeLeg_from_second(path) ==
    IF path = <<>> THEN <<>>
    ELSE <<G0Line(path[1]), <<"servo_up">>>>
         \o [i \in 1..(Len(path) - 1) |-> G1Line(path[i + 1])]
         \o << <<"servo_down">> >>

\* one pass of the loop over path_seq: nothing for a falsy path, else the
\* rapid move to the start, servo_up, a G1 per node, servo_down
GcodeLeg(path) ==
    IF path = <<>> THEN <<>>
    ELSE <<G0Line(path[1]), <<"servo_up">>>>
         \o [i \in 1..Len(path) |-> G1Line(path[i])]
         \o << <<"servo_down">> >>

RECURSIVE generate_gcode(_)
generate_gcode(legs) ==
    IF legs = <<>> THEN <<>>
    ELSE GcodeLeg(legs[1][2]) \o generate_gcode(Tail(legs))

(***************************************************************************)
(* The move sources: the demo game of PremadeGameMode and recorded games   *)
(* typed or played into run_game.                                          *)
(***************************************************************************)
\* PremadeGameMode.moves
PremadeMoves ==
    <<<<"e","2","e","4">>, <<"e","7","e","5">>, <<"d","2","d","4">>, <<"e","5","d","4">>,
      <<"c","2","c","4">>, <<"d","4","c","3">>, <<"b","2","b","4">>, <<"a","7","a","5">>,
      <<"b","4","a","5">>, <<"a","8","a","5">>, <<"d","1","a","4">>, <<"a","5","a","4">>,
      <<"c","1","a","3">>, <<"a","4","a","3">>, <<"e","4","e","5">>, <<"f","8","d","6">>,
      <<"f","2","f","4">>, <<"g","8","h","6">>, <<"f","4","f","5">>, <<"e","8","g","8">>,
      <<"f","5","f","6">>, <<"c","3","c","2">>, <<"b","1","c","3">>, <<"a","3","b","3">>,
      <<"c","3","b","1">>, <<"b","3","b","2">>, <<"h","2","h","3">>, <<"c","2","c","1","q">>>>
\* white takes en passant, both sides castle
GameCastles ==
    <<<<"e","2","e","4">>, <<"h","7","h","6">>, <<"e","4","e","5">>, <<"d","7","d","5">>,
      <<"e","5","d","6">>, <<"d","8","d","6">>, <<"g","1","f","3">>, <<"b","8","c","6">>,
      <<"f","1","c","4">>, <<"c","8","f","5">>, <<"e","1","g","1">>, <<"e","8","c","8">>>>
\* white promotes three pawns to knights
GameKnights ==
    <<<<"h","2","h","4">>, <<"g","7","g","5">>, <<"h","4","g","5">>, <<"h","7","h","6">>,
      <<"g","5","h","6">>, <<"g","8","f","6">>, <<"h","6","h","7">>, <<"h","8","g","8">>,
      <<"h","7","h","8","n">>, <<"g","8","h","8">>, <<"g","2","g","4">>, <<"a","7","a","6">>,
      <<"g","4","g","5">>, <<"a","6","a","5">>, <<"g","5","g","6">>, <<"a","5","a","4">>,
      <<"g","6","g","7">>, <<"a","4","a","3">>, <<"g","7","h","8","n">>, <<"f","6","d","5">>,
      <<"f","2","f","4">>, <<"b","7","b","6">>, <<"f","4","f","5">>, <<"b","6","b","5">>,
      <<"f","5","f","6">>, <<"b","5","b","4">>, <<"f","6","e","7">>, <<"b","4","b","3">>,
      <<"e","7","f","8","n">>>>
\* black takes en passant, white castles long, black promotes with a capture
GameLongCastle ==
    <<<<"d","2","d","4">>, <<"a","7","a","5">>, <<"b","1","c","3">>, <<"a","5","a","4">>,
      <<"b","2","b","4">>, <<"a","4","b","3">>, <<"c","1","f","4">>, <<"h","7","h","6">>,
      <<"d","1","d","3">>, <<"h","6","h","5">>, <<"e","1","c","1">>, <<"b","3","a","2">>,
      <<"c","3","b","1">>, <<"a","2","b","1","n">>>>

\* white promotes with its third capture
GameThirdCapture ==
    <<<<"h","2","h","4">>, <<"g","7","g","5">>, <<"h","4","g","5">>, <<"h","7","h","6">>,
      <<"g","5","h","6">>, <<"a","7","a","6">>, <<"h","6","h","7">>, <<"a","6","a","5">>,
      <<"h","7","g","8","n">>>>

Games == {PremadeMoves, GameCastles, GameKnights, GameLongCastle, GameThirdCapture}

\* the strings offered to plan_path and move_piece besides the next moves of
\* the recorded games
UciInputs ==
    {<<"g","1","f","3">>, <<"b","1","c","3">>, <<"g","8","f","6">>, <<"d","7","d","5">>,
     <<"e","4","d","5">>, <<"d","8","d","5">>, <<"d","2","d","3">>, <<"a","7","a","6">>,
     <<"h","7","h","8","q">>, <<"h","7","h","8","r">>, <<"g","7","h","8","b">>, <<"g","7","h","8","q">>,
     <<"g","7","g","8","b">>, <<"c","2","c","1","n">>, <<"c","2","c","1","r">>, <<"c","2","c","1","b">>,
     <<"a","2","b","1","b">>, <<"a","2","b","1","q">>, <<"a","2","a","1","q">>, <<"e","7","f","8","q">>,
     <<"e","7","d","8","n">>, <<"e","7","d","8","r">>, <<"e","1","g","1">>, <<"e","8","g","8">>,
     <<"e","1","c","1">>, <<"e","8","c","8">>, <<"a","1","b","1">>, <<"h","8","g","8">>,
     <<"e","1","e","2">>, <<"e","8","e","7">>}

\* the moves a game record parses into, up to its k-th
RECURSIVE GameStack(_, _)
GameStack(g, k) ==
    IF k = 0 THEN <<>> ELSE Append(GameStack(g, k - 1), FromUci(g[k]))

\* the move stacks of the recorded games, move by move
GameStacks == UNION {{GameStack(g, k) : k \in 0..Len(g)} : g \in Games}

\* how many moves a move stack is away from the recorded games
OffBook(ms) ==
    Len(ms) - MinOf({-k : k \in {j \in 0..Len(ms) : SubSeq(ms, 1, j) \in GameStacks}}) * (-1)

\* the next moves of the recorded games
BookNext(ms) ==
    {g[Len(ms) + 1] : g \in {h \in Games : Len(h) > Len(ms) /\ GameStack(h, Len(ms)) = ms}}

\* the exploration stays within MaxFree moves of a recorded game
Explored(cb, u) ==
    OffBook(Append(cb.move_stack, parse_uci(cb, u))) <= MaxFree

(***************************************************************************)
(* game_loop.run_game: the mode, the engines and the branch of every turn. *)
(* What a turn does with the move it obtained (plan_path, send_gcode_line, *)
(* move_piece) is the turn model's; here a turn only counts.               *)
(***************************************************************************)
\* number of turns of the main loop that are followed
MaxRunTurns == 6

\* the answers ask_int may return for a skill level
Skills == {1350, 3190}

\* a local that holds None is the empty list here, one that holds a value
\* the list of that value
Absent == <<>>

\* the locals of run_game before the mode is asked for
RunInit ==
    run = [at |-> "start", mode |-> "", AUTO_PLAY |-> FALSE, HUMAN_PLAYS_WHITE |-> TRUE,
           HUMAN_VS_HUMAN |-> FALSE, WHITE_SKILL |-> Absent, BLACK_SKILL |-> Absent,
           white_engine |-> Absent, black_engine |-> Absent, turn |-> 0,
           branch |-> "", engine |-> Absent]

\* an engine process as popen_uci returns it and configure leaves it
Engine(skill) == <<[UCI_Elo |-> skill, quit |-> FALSE]>>

\* the choice of the mode, and for mode 1 of the colour, with the skill
\* levels the mode asks for; mode 4 plays the premade game first (an even
\* number of moves: White is to move after it) and then goes on like the
\* others, with the placeholders as they were set
ConfigureMode(mode, color_choice, skill) ==
    /\ run.at = "start"
    /\ run' = [run EXCEPT
                  !.at = "configured",
                  !.mode = mode,
                  !.AUTO_PLAY = (mode = "2"),
                  !.HUMAN_PLAYS_WHITE = IF mode = "1" THEN color_choice = "White"
                                        ELSE mode # "2",
                  !.HUMAN_VS_HUMAN = (mode = "3"),
                  !.WHITE_SKILL = IF (mode = "1" /\ color_choice # "White") \/ mode = "2"
                                  THEN <<skill[1]>> ELSE Absent,
                  !.BLACK_SKILL = IF (mode = "1" /\ color_choice = "White") \/ mode = "2"
                                  THEN <<skill[2]>> ELSE Absent]
    /\ UNCHANGED <<chess_board, captured_white, captured_black, white_promos,
                   black_promos, state_board, node_grid, path_seq, last_op, last_uci>>
    /\ UNCHANGED <<link, interp>>

\* the engines run_game starts once the gantry is set up; configure() with
\* a skill level of None is the library's to accept or to refuse
StartEngines(refused) ==
    /\ run.at = "configured"
    /\ LET any == run.AUTO_PLAY \/ (~run.HUMAN_VS_HUMAN /\ ~run.HUMAN_PLAYS_WHITE)
           black == any /\ (run.AUTO_PLAY \/ ~run.HUMAN_PLAYS_WHITE)
           white == any /\ (run.AUTO_PLAY \/ run.HUMAN_PLAYS_WHITE = FALSE)
           unset == (black /\ run.BLACK_SKILL = Absent) \/ (white /\ run.WHITE_SKILL = Absent)
       IN IF refused
          THEN /\ unset
               /\ run' = [run EXCEPT !.at = "raised",
                                     !.black_engine = IF black THEN Engine(run.BLACK_SKILL)
                                                      ELSE Absent]
          ELSE run' = [run EXCEPT
                          !.at = "loop",
                          !.turn = 1,
                          !.black_engine = IF black THEN Engine(run.BLACK_SKILL) ELSE Absent,
                          !.white_engine = IF white THEN Engine(run.WHITE_SKILL) ELSE Absent]
    /\ UNCHANGED <<chess_board, captured_white, captured_black, white_promos,
                   black_promos, state_board, node_grid, path_seq, last_op, last_uci>>
    /\ UNCHANGED <<link, interp>>

\* the side to move: White opens, and the premade game leaves White to move
color == IF run.turn % 2 = 1 THEN "White" ELSE "Black"

\* the condition of the computer-move branch
ComputerToMove ==
    /\ ~run.HUMAN_VS_HUMAN
    /\ \/ run.AUTO_PLAY
       \/ (color = "White" /\ ~run.HUMAN_PLAYS_WHITE)
       \/ (color = "Black" /\ run.HUMAN_PLAYS_WHITE)

\* a turn whose move is typed in (both players human, or the human's side)
HumanTurn ==
    /\ run.at = "loop"
    /\ run.turn <= MaxRunTurns
    /\ ~ComputerToMove
    /\ run' = [run EXCEPT !.turn = @ + 1, !.branch = "human", !.engine = Absent]
    /\ UNCHANGED <<chess_board, captured_white, captured_black, white_promos,
                   black_promos, state_board, node_grid, path_seq, last_op, last_uci>>
    /\ UNCHANGED <<link, interp>>

\* a turn of the computer-move branch: engine.play() on the engine selected
\* for the side to move; on None it raises AttributeError
ComputerTurn ==
    /\ run.at = "loop"
    /\ run.turn <= MaxRunTurns
    /\ ComputerToMove
    /\ LET engine == IF color = "White" THEN run.white_engine ELSE run.black_engine
       IN run' = [run EXCEPT !.branch = "computer",
                             !.engine = engine,
                             !.at = IF engine = Absent THEN "raised" ELSE "loop",
                             !.turn = IF engine = Absent THEN @ ELSE @ + 1]
    /\ UNCHANGED <<chess_board, captured_white, captured_black, white_promos,
                   black_promos, state_board, node_grid, path_seq, last_op, last_uci>>
    /\ UNCHANGED <<link, interp>>

\* is_game_over() ends the loop: the engines that exist are quit
GameOver ==
    /\ run.at = "loop"
    /\ run.turn > 1
    /\ run' = [run EXCEPT
                  !.at = "over",
                  !.white_engine = [i \in 1..Len(@) |-> [@[i] EXCEPT !.quit = TRUE]],
                  !.black_engine = [i \in 1..Len(@) |-> [@[i] EXCEPT !.quit = TRUE]]]
    /\ UNCHANGED <<chess_board, captured_white, captured_black, white_promos,
                   black_promos, state_board, node_grid, path_seq, last_op, last_uci>>
    /\ UNCHANGED <<link, interp>>

NextRun ==
    \/ \E mode \in {"1", "2", "3", "4"}, color_choice \in {"White", "Black"},
          skill \in Skills \X Skills :
           /\ mode # "1" => color_choice = "White"
           /\ ConfigureMode(mode, color_choice, skill)
    \/ \E refused \in BOOLEAN : StartEngines(refused)
    \/ HumanTurn
    \/ ComputerTurn
    \/ GameOver

(***************************************************************************)
(* human_planning_good.interpret_human_move: the move read off the sensor  *)
(* matrix under the board while a player moves pieces by hand.             *)
(***************************************************************************)
\* number of sensor changes that are followed during one call
MaxEvents == 4

\* number of moves played before the call
MaxOpening == 2

\* the cells the hand lifts pieces from and puts pieces on: e1, e2, g1, f3,
\* h1, a cell of the white bank and the first black capture slot
HandCells == {<<8, 6>>, <<7, 6>>, <<8, 8>>, <<6, 7>>, <<8, 9>>, <<3, 0>>, <<3, 1>>}

\* chr(ord('a') + n) for the column offsets of the state grid (chr(96) is
\* the grave accent)
FileChr ==
    [n \in -2..9 |->
        CASE n = -2 -> "_" [] n = -1 -> "chr(96)" [] n = 0 -> "a" [] n = 1 -> "b" [] n = 2 -> "c"
          [] n = 3 -> "d" [] n = 4 -> "e" [] n = 5 -> "f" [] n = 6 -> "g" [] n = 7 -> "h"
          [] n = 8 -> "i" [] n = 9 -> "j"]

is_game_square(r, c) == 1 <= r /\ r <= 8 /\ 2 <= c /\ c <= 9

\* state_to_uci: the file letter and the rank digit of a state cell
state_to_uci(r, c) == <<FileChr[c - 2], Str(8 - (r - 1))>>

\* chess.parse_square
parse_square(name) == square(FileIdx[name[1]], RankIdx[name[2]])

\* str.lower() of a piece symbol
Lower(s) ==
    CASE s = "P" -> "p" [] s = "N" -> "n" [] s = "B" -> "b"
      [] s = "R" -> "r" [] s = "Q" -> "q" [] s = "K" -> "k" [] OTHER -> s

\* the locals before the call
InterpInit ==
    interp = [at |-> "idle", matrix |-> {}, previous |-> {}, start_square |-> Absent,
              end_square |-> Absent, promotion |-> Absent, mode |-> "idle", phase |-> 0,
              result |-> Absent, events |-> <<>>]

FramesInit == RunInit /\ InterpInit

\* the return statement
interpret_return(st) ==
    [st EXCEPT !.at = "returned",
               !.result = st.start_square \o st.end_square \o st.promotion]

\* the body of the loop for the one cell (r, c) that switched, d = +1 for a
\* piece lifted and -1 for a piece put down
interpret_step(st, r, c, d) ==
    IF st.mode = "idle" /\ d = 1 /\ c \in {0, 11}
    THEN [st EXCEPT !.promotion = <<Lower((IF c = 0 THEN white_promos ELSE black_promos)[r + 1])>>,
                    !.mode = "promo", !.phase = 1]
    ELSE IF st.mode \in {"promo", "capture"}
    THEN IF st.phase = 1 /\ d = 1 /\ is_game_square(r, c)
         THEN [st EXCEPT !.start_square = state_to_uci(r, c), !.phase = 2]
         ELSE IF st.phase = 2 /\ d = -1 /\ is_game_square(r, c)
         THEN interpret_return([st EXCEPT !.end_square = state_to_uci(r, c)])
         ELSE st
    ELSE IF st.mode = "idle" /\ d = 1 /\ (<<r, c>> \in SeqRange(white_captures)
                                           \/ <<r, c>> \in SeqRange(black_captures))
    THEN [st EXCEPT !.mode = "capture", !.phase = 1]
    ELSE IF st.mode = "idle" /\ d = 1 /\ is_game_square(r, c)
    THEN LET piece == piece_at(chess_board, parse_square(state_to_uci(r, c)))
         IN [st EXCEPT !.start_square = state_to_uci(r, c),
                       !.mode = IF piece # None /\ PieceType(piece) = "K"
                                THEN "castle" ELSE "normal",
                       !.phase = IF piece # None /\ PieceType(piece) = "K" THEN 1 ELSE @]
    ELSE IF st.mode = "castle"
    THEN IF st.phase = 1 /\ d = -1 /\ is_game_square(r, c)
         THEN [st EXCEPT !.end_square = state_to_uci(r, c), !.phase = 2]
         ELSE IF st.phase = 2 /\ d = 1 /\ is_game_square(r, c)
         THEN [st EXCEPT !.phase = 3]
         ELSE IF st.phase = 3 /\ d = -1 /\ is_game_square(r, c)
         THEN interpret_return(st)
         ELSE st
    ELSE IF st.mode = "normal" /\ d = -1 /\ is_game_square(r, c)
    THEN interpret_return([st EXCEPT !.end_square = state_to_uci(r, c)])
    ELSE st

\* the cells of the state grid a piece stands on: what the sensors report
Occupied(board) == {cell \in StateCells : board[cell] \in PieceSymbols}

\* interpret_human_move is called between two moves: the first get_matrix()
InterpretCall ==
    /\ interp.at = "idle"
    /\ last_op \in {"init", "move"}
    /\ interp' = [interp EXCEPT !.at = "loop",
                                !.matrix = Occupied(state_board),
                                !.previous = Occupied(state_board)]
    /\ UNCHANGED <<chess_board, captured_white, captured_black, white_promos,
                   black_promos, state_board, node_grid, path_seq, last_op, last_uci>>
    /\ UNCHANGED <<link, run>>

\* the hand lifts the piece on a cell or puts the piece it holds on a free
\* cell; the sensors are read many times between two changes made by hand,
\* so the change before has been read
SensorChange(cell) ==
    /\ interp.at = "loop"
    /\ interp.previous = interp.matrix
    /\ Len(interp.events) < MaxEvents
    /\ IF cell \in interp.matrix
       THEN interp' = [interp EXCEPT !.matrix = @ \ {cell},
                                     !.events = Append(@, <<"lift", cell>>)]
       ELSE /\ Cardinality({i \in 1..Len(interp.events) : interp.events[i][1] = "lift"})
                 > Cardinality({i \in 1..Len(interp.events) : interp.events[i][1] = "place"})
            /\ interp' = [interp EXCEPT !.matrix = @ \cup {cell},
                                        !.events = Append(@, <<"place", cell>>)]
    /\ UNCHANGED <<chess_board, captured_white, captured_black, white_promos,
                   black_promos, state_board, node_grid, path_seq, last_op, last_uci>>
    /\ UNCHANGED <<link, run>>

\* one turn of the while loop: get_matrix(), the cells that switched, and
\* the body for the cell if it is exactly one
InterpretPoll ==
    /\ interp.at = "loop"
    /\ LET current == interp.matrix
           switched == (interp.previous \ current) \cup (current \ interp.previous)
       IN IF Cardinality(switched) # 1
          THEN interp' = [interp EXCEPT !.previous = current]
          ELSE \E cell \in switched :
                   interp' = interpret_step([interp EXCEPT !.previous = current],
                                            cell[1], cell[2],
                                            IF cell \in interp.previous THEN 1 ELSE -1)
    /\ UNCHANGED <<chess_board, captured_white, captured_black, white_promos,
                   black_promos, state_board, node_grid, path_seq, last_op, last_uci>>
    /\ UNCHANGED <<link, run>>

(***************************************************************************)
(* The state machine                                                       *)
(***************************************************************************)
Init ==
    /\ chess_board = StartBoard
    /\ captured_white = <<>>
    /\ captured_black = <<>>
    /\ white_promos = InitWhitePromos
    /\ black_promos = InitBlackPromos
    /\ state_board = populate_state_board(StartBoard, <<>>, <<>>, InitWhitePromos, InitBlackPromos)
    /\ node_grid = populate_node_grid(state_board)
    /\ path_seq = <<>>
    /\ last_op = "init"
    /\ last_uci = <<>>
    /\ LinkInit
    /\ FramesInit

\* the caller is between two turns
Idle == last_op \in {"init", "move"}

\* plan_path(u) returns its legs
PlanPath(u) ==
    /\ Idle
    /\ ParseOk(chess_board, u)
    /\ LET res == plan_path(chess_board, state_board, node_grid, u)
       IN /\ ~res.raised
          /\ path_seq' = res.path_seq
          /\ node_grid' = res.node_grid
    /\ last_op' = "plan"
    /\ last_uci' = u
    /\ UNCHANGED <<chess_board, captured_white, captured_black, white_promos,
                   black_promos, state_board>>
    /\ UNCHANGED <<link, frames>>

\* plan_path(u) raises after parsing (no bank entry of the promoted kind, or
\* no piece on the origin square): nothing is returned and the caller stops
PlanPathRaises(u) ==
    /\ Idle
    /\ ParseOk(chess_board, u)
    /\ plan_path(chess_board, state_board, node_grid, u).raised
    /\ path_seq' = <<>>
    /\ last_op' = "plan_raised"
    /\ last_uci' = u
    /\ UNCHANGED <<chess_board, captured_white, captured_black, white_promos,
                   black_promos, state_board, node_grid>>
    /\ UNCHANGED <<link, frames>>

\* move_piece(u): directly, or for the move the caller has just planned
MovePiece(u) ==
    /\ Idle \/ (last_op = "plan" /\ u = last_uci)
    /\ ParseOk(chess_board, u)
    /\ Explored(chess_board, u)
    /\ LET st == MovePieceState(chess_board, captured_white, captured_black,
                                white_promos, black_promos, u)
           sb == populate_state_board(st.chess_board, st.captured_white, st.captured_black,
                                      st.white_promos, st.black_promos)
       IN /\ chess_board' = st.chess_board
          /\ captured_white' = st.captured_white
          /\ captured_black' = st.captured_black
          /\ white_promos' = st.white_promos
          /\ black_promos' = st.black_promos
          /\ state_board' = sb
          /\ node_grid' = populate_node_grid(sb)
    /\ path_seq' = <<>>
    /\ last_op' = "move"
    /\ last_uci' = u
    /\ UNCHANGED <<link, frames>>

\* update_from_chess() called on its own: between two turns, again, or after
\* a reset
UpdateFromChess ==
    /\ last_op \in {"init", "move", "update", "reset"}
    /\ LET grids == update_from_chess(chess_board, captured_white, captured_black,
                                      white_promos, black_promos)
       IN /\ state_board' = grids.state_board
          /\ node_grid' = grids.node_grid
    /\ last_op' = "update"
    /\ UNCHANGED <<chess_board, captured_white, captured_black, white_promos,
                   black_promos, path_seq, last_uci>>
    /\ UNCHANGED <<link, frames>>

\* the state cells whose nodes are offered to _direct_path: a starting
\* square, a square in mid-board, a capture slot of either side, a lane cell
DirectCells == {<<8, 6>>, <<4, 5>>, <<9, 1>>, <<3, 1>>, <<0, 0>>}

\* _direct_path(start, end) on a node grid the game has reached, for nodes of
\* state cells as reset_board_physical passes them; the caller plays no
\* further move afterwards
DirectPath(s, e) ==
    /\ Idle
    /\ path_seq' = << <<"direct", direct_path(node_grid, s, e)>> >>
    /\ last_op' = "direct"
    /\ last_uci' = <<s, e>>
    /\ UNCHANGED <<chess_board, captured_white, captured_black, white_promos,
                   black_promos, state_board, node_grid>>
    /\ UNCHANGED <<link, frames>>

Inputs == BookNext(chess_board.move_stack) \cup UciInputs

Next ==
    \/ \E u \in Inputs : PlanPath(u)
    \/ \E u \in Inputs : PlanPathRaises(u)
    \/ \E u \in Inputs : MovePiece(u)

Spec == Init /\ [][Next]_vars

\* the recorded games move by move, with both pathfinders queried at every
\* position
NextDirect ==
    \/ \E u \in Inputs : PlanPath(u)
    \/ \E u \in Inputs : PlanPathRaises(u)
    \/ \E u \in BookNext(chess_board.move_stack) : MovePiece(u)
    \/ \E c, d \in DirectCells : DirectPath(<<c[1] * 2, c[2] * 2>>, <<d[1] * 2, d[2] * 2>>)

SpecDirect == Init /\ [][NextDirect]_vars


(***************************************************************************)
(* The two searches on their own: node grids with walls, so that a goal    *)
(* can be out of reach                                                     *)
(***************************************************************************)
\* the eight nodes around a node, and the four diagonal ones
Around(n) == {<<n[1] + d[1], n[2] + d[2]>> : d \in Dirs8}
Corners(n) == {m \in Around(n) : m[1] # n[1] /\ m[2] # n[2]}

\* a grid with the block marker written on a set of nodes
Walled(grid, nodes) == [n \in NodeCells |-> IF n \in nodes THEN "#" ELSE grid[n]]

\* the starting grid; a mid-board node walled in; a wall across the board;
\* a mid-board node with its diagonal neighbours blocked
SearchGrids ==
    LET start == populate_node_grid(
                     populate_state_board(StartBoard, <<>>, <<>>, InitWhitePromos, InitBlackPromos))
    IN {start,
        Walled(start, Around(<<8, 10>>)),
        Walled(start, {n \in NodeCells : n[1] = 9}),
        Walled(start, Corners(<<8, 10>>))}

InitSearch ==
    /\ chess_board = StartBoard
    /\ captured_white = <<>>
    /\ captured_black = <<>>
    /\ white_promos = InitWhitePromos
    /\ black_promos = InitBlackPromos
    /\ state_board = populate_state_board(StartBoard, <<>>, <<>>, InitWhitePromos, InitBlackPromos)
    /\ node_grid \in SearchGrids
    /\ path_seq = <<>>
    /\ last_op = "init"
    /\ last_uci = <<>>
    /\ LinkInit
    /\ FramesInit

\* astar(start, goal) on the node grid as it stands
AStarQuery(s, g) ==
    /\ Idle
    /\ path_seq' = << <<"astar", astar(node_grid, s, g)>> >>
    /\ last_op' = "astar"
    /\ last_uci' = <<s, g>>
    /\ UNCHANGED <<chess_board, captured_white, captured_black, white_promos,
                   black_promos, state_board, node_grid>>
    /\ UNCHANGED <<link, frames>>

NextSearch ==
    \/ \E c, d \in DirectCells : AStarQuery(<<c[1] * 2, c[2] * 2>>, <<d[1] * 2, d[2] * 2>>)
    \/ \E c, d \in DirectCells : DirectPath(<<c[1] * 2, c[2] * 2>>, <<d[1] * 2, d[2] * 2>>)

SpecSearch == InitSearch /\ [][NextSearch]_vars


(***************************************************************************)
(* The recorded games with an obstacle on the node grid: positions of the  *)
(* games entered with '#' around a node a leg must reach, so that a leg's  *)
(* search finds no route                                                   *)
(***************************************************************************)
\* the bookkeeping after the first k moves of a game
RECURSIVE BookState(_, _)
BookState(g, k) ==
    IF k = 0
    THEN [chess_board |-> StartBoard, captured_white |-> <<>>, captured_black |-> <<>>,
          white_promos |-> InitWhitePromos, black_promos |-> InitBlackPromos]
    ELSE LET p == BookState(g, k - 1)
         IN MovePieceState(p.chess_board, p.captured_white, p.captured_black,
                           p.white_promos, p.black_promos, g[k])

\* (game, moves played, walled nodes): the start of every game as it is;
\* before e5d6 en passant with the first black slot walled in; before e1g1
\* with f1 walled in; before e8c8 with d8 walled in; before h7h8n with h8
\* walled in; before the capture d8d6 with d6 walled in
WalledStarts ==
    {<<g, 0, {}>> : g \in Games}
    \cup {<<GameCastles, 4, Around(<<6, 2>>)>>,
          <<GameCastles, 5, Around(<<6, 10>>)>>,
          <<GameCastles, 10, Around(<<16, 14>>)>>,
          <<GameCastles, 11, Around(<<2, 10>>)>>,
          <<GameKnights, 8, Around(<<2, 18>>)>>}

InitWalled ==
    \E w \in WalledStarts :
        LET st == BookState(w[1], w[2])
            sb == populate_state_board(st.chess_board, st.captured_white, st.captured_black,
                                       st.white_promos, st.black_promos)
        IN /\ chess_board = st.chess_board
           /\ captured_white = st.captured_white
           /\ captured_black = st.captured_black
           /\ white_promos = st.white_promos
           /\ black_promos = st.black_promos
           /\ state_board = sb
           /\ node_grid = Walled(populate_node_grid(sb), w[3])
           /\ path_seq = <<>>
           /\ last_op = "init"
           /\ last_uci = <<>>
           /\ LinkInit
           /\ FramesInit

NextWalled ==
    \/ \E u \in Inputs : PlanPath(u)
    \/ \E u \in Inputs : PlanPathRaises(u)
    \/ \E u \in BookNext(chess_board.move_stack) : MovePiece(u)
    \/ UpdateFromChess

SpecWalled == InitWalled /\ [][NextWalled]_vars


(***************************************************************************)
(* The recorded games with the physical reset once a game has been played  *)
(* to its last move                                                        *)
(***************************************************************************)
\* what random.choice draws, call after call (taken modulo the length of the
\* list it chooses from)
ResetDraws == {<<0>>, <<7, 3>>, <<19, 11, 2>>}

\* reset_board_physical(), called as the game loops call it, when the game is
\* over: the paths go to generate_gcode as 'move' legs; the node grid keeps
\* what the reset wrote on it, the state grid is not touched
ResetBoardPhysical(draws) ==
    /\ Idle
    /\ \E g \in Games : chess_board.move_stack = GameStack(g, Len(g))
    /\ LET res == reset_board_physical(state_board, node_grid, draws)
       IN /\ node_grid' = res.node_grid
          /\ path_seq' = [i \in 1..Len(res.reset_paths) |-> <<"move", res.reset_paths[i]>>]
    /\ last_op' = "reset"
    /\ UNCHANGED <<chess_board, captured_white, captured_black, white_promos,
                   black_promos, state_board, last_uci>>
    /\ UNCHANGED <<link, frames>>

NextReset ==
    \/ \E u \in BookNext(chess_board.move_stack) : PlanPath(u)
    \/ \E u \in Inputs : PlanPathRaises(u)
    \/ \E u \in BookNext(chess_board.move_stack) : MovePiece(u)
    \/ \E draws \in ResetDraws : ResetBoardPhysical(draws)
    \/ UpdateFromChess

SpecReset == Init /\ [][NextReset]_vars


(***************************************************************************)
(* The recorded games with strings of every sort offered at each position: *)
(* malformed ones, moves that are not legal, and the null move             *)
(***************************************************************************)
\* strings Move.from_uci rejects: too short, too long, a rank that does not
\* exist, a promotion letter that is no piece, the same square twice
MalformedStrings ==
    {<<"e","2">>, <<"e","2","e","4","q","q">>, <<"e","9","e","4">>,
     <<"e","7","e","8","x">>, <<"e","2","e","2">>}

\* strings that parse into a move, legal in some positions only
MoveStrings ==
    {<<"e","2","e","4">>, <<"e","2","e","5">>, <<"e","1","g","1">>, <<"a","7","a","8","q">>}

InputStrings == MalformedStrings \cup MoveStrings \cup {NullUci}

\* move_piece(u) for a string parse_uci refuses: the exception leaves
\* move_piece at line 205, before anything is written; the caller stops
MovePieceRaises(u) ==
    /\ Idle
    /\ ~ParseOk(chess_board, u)
    /\ last_op' = "move_raised"
    /\ last_uci' = u
    /\ UNCHANGED <<chess_board, captured_white, captured_black, white_promos,
                   black_promos, state_board, node_grid, path_seq>>
    /\ UNCHANGED <<link, frames>>

\* plan_path(u) for a string parse_uci refuses: the exception leaves
\* plan_path at line 316
PlanPathRefuses(u) ==
    /\ Idle
    /\ ~ParseOk(chess_board, u)
    /\ path_seq' = <<>>
    /\ last_op' = "plan_raised"
    /\ last_uci' = u
    /\ UNCHANGED <<chess_board, captured_white, captured_black, white_promos,
                   black_promos, state_board, node_grid>>
    /\ UNCHANGED <<link, frames>>

NextInput ==
    \/ \E u \in BookNext(chess_board.move_stack) \cup InputStrings : MovePiece(u)
    \/ \E u \in InputStrings : MovePieceRaises(u)
    \/ \E u \in InputStrings : PlanPath(u)
    \/ \E u \in InputStrings : PlanPathRaises(u)
    \/ \E u \in InputStrings : PlanPathRefuses(u)

SpecInput == Init /\ [][NextInput]_vars


(***************************************************************************)
(* A turn of run_game, and of PremadeGameMode.play_next_move: the move is  *)
(* asked for and checked, planned, its command lines are handed one by one *)
(* to send_gcode_line, and move_piece follows.  The motion controller is   *)
(* the GRBL firmware at the far end of the serial line: it takes what was  *)
(* written in order, answers every line, an empty one included, with       *)
(* "ok" once the line is queued, and answers the real-time command '?'     *)
(* with a status report.  What it sends lands in the input buffer.         *)
(***************************************************************************)
\* turns played in one exploration, and status polls that fill the timeout
\* of wait_until_idle
MaxTurns == 4
MaxPolls == 2
\* the checks of a typed move without the test against the legal moves
human_input_unchecked(cb, u) ==
    IF Len(u) \notin {4, 5} THEN "Invalid format"
    ELSE IF ~UciParses(u) THEN "Invalid notation"
    ELSE "accepted"

\* the checks of a typed move in run_game: the message printed before the
\* prompt is repeated, or "accepted" when the loop is left
human_input(cb, u) ==
    IF Len(u) \notin {4, 5} THEN "Invalid format"
    ELSE IF ~UciParses(u) THEN "Invalid notation"
    ELSE IF u = NullUci \/ ~is_legal(cb, FromChess960(cb, FromUci(u))) THEN "Illegal move"
    ELSE "accepted"

\* the moves offered at the prompt: what a player may type, and the next
\* move of the demo list
TurnInputs(ms) ==
    InputStrings
    \cup (IF Len(ms) < Len(PremadeMoves) /\ GameStack(PremadeMoves, Len(ms)) = ms
          THEN {PremadeMoves[Len(ms) + 1]} ELSE {})

\* lines = gcode_str.splitlines(); line i and next_line of the sending loop
\* after n lines have been sent (<<>> for None)
Lines == generate_gcode(path_seq)
\* line i of the sending loop, taken from the end of the list
current_line_backwards(lines, n) == lines[Len(lines) - n]

current_line(lines, n) == lines[n + 1]
next_line(lines, n) == IF n + 2 <= Len(lines) THEN lines[n + 2] ELSE <<>>

IsSentinel(line) == line \in {<<"servo_up">>, <<"servo_down">>}

\* the number of the last motion line among the first n lines (0 if none)
LastMotion(lines, n) ==
    LET sent == {i \in 1..n : ~IsSentinel(lines[i])}
    IN IF sent = {} THEN 0 ELSE CHOOSE i \in sent : \A j \in sent : j <= i

\* b"?\n" as written by wait_until_idle once n lines of the turn have been
\* written (n is kept for the properties only), and the status report
Query(n) == <<"?", n>>
StatusReport(running, n) == <<"status", IF running THEN "Run" ELSE "Idle", n>>
Ok == <<"ok">>
\* the first status report in the buffer, whatever it says (0 if none)
FirstReport(buffer) ==
    LET reports == {k \in 1..Len(buffer) : buffer[k][1] = "status"}
    IN IF reports = {} THEN 0 ELSE CHOOSE k \in reports : \A j \in reports : k <= j

\* the first report in the buffer that holds "Idle" (0 if none)
FirstIdle(buffer) ==
    LET idles == {k \in 1..Len(buffer) : buffer[k][1] = "status" /\ buffer[k][2] = "Idle"}
    IN IF idles = {} THEN 0 ELSE CHOOSE k \in idles : \A j \in idles : k <= j

\* the prompt of a turn is showing
Prompting == last_op \in {"init", "move", "rejected"} /\ pc = "call"

\* the sending loop has a line left
Sending == last_op = "plan" /\ pc = "call" /\ line_no < Len(Lines)

\* a typed move fails a check: the message is printed and the prompt comes
\* again
HumanRejected(u) ==
    /\ Prompting
    /\ human_input(chess_board, u) # "accepted"
    /\ last_op' = "rejected"
    /\ last_uci' = u
    /\ UNCHANGED <<chess_board, captured_white, captured_black, white_promos,
                   black_promos, state_board, node_grid, path_seq>>
    /\ UNCHANGED <<link, frames>>

\* the move is accepted and plan_path returns its legs
TurnPlan(u) ==
    /\ Prompting
    /\ Len(chess_board.move_stack) < MaxTurns
    /\ human_input(chess_board, u) = "accepted"
    /\ LET res == plan_path(chess_board, state_board, node_grid, u)
       IN /\ ~res.raised
          /\ path_seq' = res.path_seq
          /\ node_grid' = res.node_grid
    /\ last_op' = "plan"
    /\ last_uci' = u
    /\ line_no' = 0
    /\ UNCHANGED <<chess_board, captured_white, captured_black, white_promos,
                   black_promos, state_board>>
    /\ UNCHANGED <<pc, tx, rx, moving, servo, polls>>
    /\ UNCHANGED frames

\* send_gcode_line(line) for a motion line, up to the wait for its answer
SendMotion ==
    /\ Sending
    /\ ~IsSentinel(current_line(Lines, line_no))
    /\ tx' = Append(tx, current_line(Lines, line_no))
    /\ pc' = "ack"
    /\ UNCHANGED <<chess_board, captured_white, captured_black, white_promos,
                   black_promos, state_board, node_grid, path_seq, last_op, last_uci>>
    /\ UNCHANGED <<line_no, rx, moving, servo, polls>>
    /\ UNCHANGED frames

\* where send_gcode_line goes once "ok" was read: into wait_until_idle if a
\* sentinel comes next, else back to the caller
after_ok(next) == IF IsSentinel(next) THEN "poll_next" ELSE "call"

\* one readline of the loop that waits for "ok": anything else is printed
\* and the loop goes on; after "ok" the function returns, or enters
\* wait_until_idle (buffer emptied, query written) when a sentinel is next
ReadAck ==
    /\ pc = "ack"
    /\ rx # <<>>
    /\ IF Head(rx) # Ok
       THEN /\ rx' = Tail(rx)
            /\ UNCHANGED <<pc, tx, line_no, polls>>
       ELSE IF after_ok(next_line(Lines, line_no)) = "poll_next"
       THEN /\ pc' = "poll_next"
            /\ rx' = <<>>
            /\ tx' = Append(tx, Query(line_no + 1))
            /\ polls' = 0
            /\ UNCHANGED line_no
       ELSE /\ pc' = "call"
            /\ rx' = Tail(rx)
            /\ line_no' = line_no + 1
            /\ UNCHANGED <<tx, polls>>
    /\ UNCHANGED <<chess_board, captured_white, captured_black, white_promos,
                   black_promos, state_board, node_grid, path_seq, last_op, last_uci>>
    /\ UNCHANGED <<moving, servo>>
    /\ UNCHANGED frames

\* send_gcode_line(line) for servo_up or servo_down, up to the sleep of
\* wait_until_idle: nothing of the line is written, the input buffer is
\* emptied and the query written
SendSentinel ==
    /\ Sending
    /\ IsSentinel(current_line(Lines, line_no))
    /\ pc' = "poll_servo"
    /\ rx' = <<>>
    /\ tx' = Append(tx, Query(line_no))
    /\ polls' = 0
    /\ UNCHANGED <<chess_board, captured_white, captured_black, white_promos,
                   black_promos, state_board, node_grid, path_seq, last_op, last_uci>>
    /\ UNCHANGED <<line_no, moving, servo>>
    /\ UNCHANGED frames

\* the servo after send_gcode_line has dealt with the line
servo_after(line, position) ==
    IF line = <<"servo_up">> THEN "up"
    ELSE IF line = <<"servo_down">> THEN "down"
    ELSE position

\* wait_until_idle after its sleep of 0.1 s, by when the controller has
\* taken what was written: a report with "Idle" is among the lines read, the
\* function returns with the later lines left in the buffer, the servo is
\* moved if the line is a sentinel, and send_gcode_line returns
PollIdle ==
    /\ pc \in {"poll_servo", "poll_next"}
    /\ tx = <<>>
    /\ FirstIdle(rx) # 0
    /\ rx' = SubSeq(rx, FirstIdle(rx) + 1, Len(rx))
    /\ servo' = servo_after(current_line(Lines, line_no), servo)
    /\ line_no' = line_no + 1
    /\ pc' = "call"
    /\ UNCHANGED <<chess_board, captured_white, captured_black, white_promos,
                   black_promos, state_board, node_grid, path_seq, last_op, last_uci>>
    /\ UNCHANGED <<tx, moving, polls>>
    /\ UNCHANGED frames

\* no line read holds "Idle" and the time is not up: the loop comes round,
\* empties the buffer and writes the query again
PollAgain ==
    /\ pc \in {"poll_servo", "poll_next"}
    /\ tx = <<>>
    /\ FirstIdle(rx) = 0
    /\ polls + 1 < MaxPolls
    /\ polls' = polls + 1
    /\ rx' = <<>>
    /\ tx' = <<Query(IF pc = "poll_next" THEN line_no + 1 ELSE line_no)>>
    /\ UNCHANGED <<chess_board, captured_white, captured_black, white_promos,
                   black_promos, state_board, node_grid, path_seq, last_op, last_uci>>
    /\ UNCHANGED <<line_no, pc, moving, servo>>
    /\ UNCHANGED frames

\* no line read holds "Idle" and the time is up: TimeoutError leaves
\* wait_until_idle, send_gcode_line and the game loop
PollTimeout ==
    /\ pc \in {"poll_servo", "poll_next"}
    /\ tx = <<>>
    /\ FirstIdle(rx) = 0
    /\ polls + 1 >= MaxPolls
    /\ polls' = polls + 1
    /\ rx' = <<>>
    /\ pc' = "timeout"
    /\ UNCHANGED <<chess_board, captured_white, captured_black, white_promos,
                   black_promos, state_board, node_grid, path_seq, last_op, last_uci>>
    /\ UNCHANGED <<line_no, tx, moving, servo>>
    /\ UNCHANGED frames

\* all lines are sent: move_piece(move_uci) and the turn is over
TurnMove ==
    /\ last_op = "plan"
    /\ pc = "call"
    /\ line_no = Len(Lines)
    /\ LET st == MovePieceState(chess_board, captured_white, captured_black,
                                white_promos, black_promos, last_uci)
           sb == populate_state_board(st.chess_board, st.captured_white, st.captured_black,
                                      st.white_promos, st.black_promos)
       IN /\ chess_board' = st.chess_board
          /\ captured_white' = st.captured_white
          /\ captured_black' = st.captured_black
          /\ white_promos' = st.white_promos
          /\ black_promos' = st.black_promos
          /\ state_board' = sb
          /\ node_grid' = populate_node_grid(sb)
    /\ path_seq' = <<>>
    /\ last_op' = "move"
    /\ line_no' = 0
    /\ UNCHANGED <<last_uci, pc, tx, rx, moving, servo, polls>>
    /\ UNCHANGED frames

\* the controller takes the next thing written: a motion line is queued,
\* the gantry runs and "ok" is sent; the query is answered with the status
\* report and, for its empty line, "ok"
GrblTake ==
    /\ tx # <<>>
    /\ tx' = Tail(tx)
    /\ IF Head(tx)[1] = "?"
       THEN /\ rx' = rx \o <<StatusReport(moving, Head(tx)[2]), Ok>>
            /\ UNCHANGED moving
       ELSE /\ rx' = Append(rx, Ok)
            /\ moving' = TRUE
    /\ UNCHANGED <<chess_board, captured_white, captured_black, white_promos,
                   black_promos, state_board, node_grid, path_seq, last_op, last_uci>>
    /\ UNCHANGED <<line_no, pc, servo, polls>>
    /\ UNCHANGED frames

\* the queued motion has been carried out: the controller is idle
GrblFinish ==
    /\ moving
    /\ moving' = FALSE
    /\ UNCHANGED <<chess_board, captured_white, captured_black, white_promos,
                   black_promos, state_board, node_grid, path_seq, last_op, last_uci>>
    /\ UNCHANGED <<line_no, pc, tx, rx, servo, polls>>
    /\ UNCHANGED frames

\* the controller sends a feedback message of its own while a line waits
\* for its answer
GrblMessage ==
    /\ pc = "ack"
    /\ ~\E k \in 1..Len(rx) : rx[k] = <<"msg">>
    /\ rx' = Append(rx, <<"msg">>)
    /\ UNCHANGED <<chess_board, captured_white, captured_black, white_promos,
                   black_promos, state_board, node_grid, path_seq, last_op, last_uci>>
    /\ UNCHANGED <<line_no, pc, tx, moving, servo, polls>>
    /\ UNCHANGED frames

NextTurn ==
    \/ \E u \in TurnInputs(chess_board.move_stack) : HumanRejected(u)
    \/ \E u \in TurnInputs(chess_board.move_stack) : TurnPlan(u)
    \/ SendMotion
    \/ ReadAck
    \/ SendSentinel
    \/ PollIdle
    \/ PollAgain
    \/ PollTimeout
    \/ TurnMove
    \/ GrblTake
    \/ GrblFinish
    \/ GrblMessage

SpecTurn == Init /\ [][NextTurn]_vars

(***************************************************************************)
(* run_game from the choice of the mode to the end of the game, and a call *)
(* of interpret_human_move after the first moves of a game.                *)
(***************************************************************************)
SpecRun == Init /\ [][NextRun]_vars

NextGesture ==
    \/ \E u \in BookNext(chess_board.move_stack) :
           /\ interp.at = "idle"
           /\ Len(chess_board.move_stack) < MaxOpening
           /\ MovePiece(u)
    \/ InterpretCall
    \/ \E cell \in HandCells : SensorChange(cell)
    \/ InterpretPoll

SpecGesture == Init /\ [][NextGesture]_vars

\* the while loop of interpret_human_move does not block: it goes round as
\* long as it has not returned
SpecGestureFair == SpecGesture /\ WF_vars(InterpretPoll)

(***************************************************************************)
(* What the claims speak about                                             *)
(***************************************************************************)
\* the least number of steps from a frontier to the goal over the neighbour
\* relation of the search (-1 if the goal cannot be reached)
RECURSIVE StepsToGoal(_, _, _, _, _)
StepsToGoal(grid, goal, frontier, seen, d) ==
    IF goal \in frontier THEN d
    ELSE IF frontier = {} THEN -1
    ELSE LET next == UNION {neighbors(grid, n[1], n[2], goal) : n \in frontier} \ seen
         IN StepsToGoal(grid, goal, next, seen \cup next, d + 1)

ShortestSteps(grid, start, goal) == StepsToGoal(grid, goal, {start}, {start}, 0)

\* the move being planned or applied, read on the position before it
PlannedMove == parse_uci(chess_board, last_uci)
PlannedPiece == piece_at(chess_board, PlannedMove.from_square)
StartNode == SquareNode(PlannedMove.from_square)
EndNode == SquareNode(PlannedMove.to_square)

\* the legs of a kind in the planned list
LegsOf(kind) == {i \in 1..Len(path_seq) : path_seq[i][1] = kind}

\* the node grid a leg was searched on: the rook leg of castling and the
\* bank piece's leg of a promotion see one node blocked
SearchGrid(i) ==
    CASE path_seq[i][1] = "castle_rook" -> [node_grid EXCEPT ![EndNode] = "#"]
      [] path_seq[i][1] = "promotion_piece" ->
            [node_grid EXCEPT ![path_seq[i + 1][2][1]] = "#"]
      [] OTHER -> node_grid

\* the legs the search produced (the last promotion leg is written down,
\* not searched)
SearchedLegs == {i \in 1..Len(path_seq) : path_seq[i][1] # "promotion_pawn_final"}
(***************************************************************************)
(* The claims                                                              *)
(***************************************************************************)
\* plan_path has just returned the legs of last_uci
Planned == last_op = "plan"

\* the step applies a move with move_piece; the move, on the position before
Moved == last_op' = "move"
AppliedMove == parse_uci(chess_board, last_uci')

\* the squares holding a piece of a colour
ColourSquares(cb, white) ==
    {sq \in Squares : piece_at(cb, sq) # None /\ Color(piece_at(cb, sq)) = white}

\* how many entries of a list are a given symbol
CountOf(list, sym) == Cardinality({i \in 1..Len(list) : list[i] = sym})

\* slot i of a colour shows the i-th captured piece of that colour, or the
\* number i while fewer than i pieces of that colour have been captured
SlotsShow(caps, captured) ==
    \A i \in 1..Len(caps) :
        state_board[caps[i]] = IF i <= Len(captured) THEN captured[i] ELSE Str(i)

\* a step in which a piece of the colour not moving leaves the board puts
\* its symbol into the k-th slot, k the number of pieces of that colour gone
\* by then; a slot showing a piece keeps showing it
SlotsStep(caps, white) ==
    LET gone == ColourSquares(chess_board, white) \ ColourSquares(chess_board', white)
        k == 16 - Cardinality(ColourSquares(chess_board', white))
    IN /\ (Moved /\ chess_board.turn # white /\ gone # {}) =>
              \A sq \in gone : state_board'[caps[k]] = piece_at(chess_board, sq)
       /\ \A i \in 1..Len(caps) :
              ~IsDigit(state_board[caps[i]]) => state_board'[caps[i]] = state_board[caps[i]]

C1_SlotsShow ==
    /\ SlotsShow(black_captures, captured_black)
    /\ SlotsShow(white_captures, captured_white)

C1_SlotsStep ==
    /\ SlotsStep(black_captures, BLACK)
    /\ SlotsStep(white_captures, WHITE)

\* C1: after any sequence of legal moves applied with move_piece, the cell of
\* each colour's i-th capture slot holds the i-th captured piece of that
\* colour if there is one and the slot's own number otherwise; the k-th
\* capture of a colour lands in its k-th slot, and an occupied slot never
\* changes afterwards.
C1_CaptureSlots == []C1_SlotsShow /\ [][C1_SlotsStep]_vars

\* both colours have lost at least two pieces
C1_Witness ==
    /\ last_op = "move"
    /\ Len(captured_black) >= 2
    /\ Len(captured_white) >= 2

\* C2: every promotion applied by move_piece changes exactly one entry of
\* the mover's bank: one entry fewer of the promoted kind, one pawn marker
\* more, and the other colour's bank unchanged.
C2_BankExactlyOnce ==
    [][(Moved /\ AppliedMove.promotion # None) =>
        LET white == chess_board.turn
            bank == IF white THEN white_promos ELSE black_promos
            after == IF white THEN white_promos' ELSE black_promos'
            kind == IF white THEN Upper(AppliedMove.promotion) ELSE AppliedMove.promotion
            pawn == IF white THEN "P" ELSE "p"
        IN /\ Cardinality({i \in 1..Len(bank) : after[i] # bank[i]}) = 1
           /\ CountOf(after, kind) = CountOf(bank, kind) - 1
           /\ CountOf(after, pawn) = CountOf(bank, pawn) + 1
           /\ IF white THEN black_promos' = black_promos
                       ELSE white_promos' = white_promos]_vars
\* the planned move is an en passant capture; the square of the pawn it takes
PlannedEnPassant == Planned /\ is_en_passant(chess_board, PlannedMove)
VictimSquare(m) == square(square_file(m.to_square), square_rank(m.from_square))

\* a leg's path runs from one node to another
Runs(path, from, to) == path # <<>> /\ path[1] = from /\ path[Len(path)] = to

\* the node of the lowest-indexed slot of a colour that holds no piece yet
NextSlotNode(white) ==
    LET caps == IF white THEN white_captures ELSE black_captures
        k == 1 + Len(IF white THEN captured_white ELSE captured_black)
    IN <<caps[k][1] * 2, caps[k][2] * 2>>

\* C3 as the spec states it: for an en passant move plan_path emits a single
\* leg, of kind capture, and no leg for the moving pawn itself.
C3_SingleCaptureLeg ==
    PlannedEnPassant => (Len(path_seq) = 1 /\ path_seq[1][1] = "capture")

\* C3, amended: for an en passant move plan_path emits exactly two legs, the
\* capture leg and then a move leg taking the capturing pawn from its start
\* node to its destination node.
C3_EnPassantTwoLegs ==
    PlannedEnPassant =>
        /\ Len(path_seq) = 2
        /\ path_seq[1][1] = "capture"
        /\ path_seq[2][1] = "move"
        /\ Runs(path_seq[2][2], StartNode, EndNode)

\* an en passant capture has been planned and the pawn's own leg is there
C3_Witness == PlannedEnPassant /\ LegsOf("move") # {}

\* the capture leg of an en passant move starts where the captured pawn
\* stands, which is not the destination square
C4_Plan ==
    PlannedEnPassant =>
        LET victim_sq == VictimSquare(PlannedMove)
            victim == piece_at(chess_board, victim_sq)
        IN /\ victim = (IF chess_board.turn THEN "p" ELSE "P")
           /\ SquareNode(victim_sq) # EndNode
           /\ LegsOf("capture") # {}
           /\ \A i \in LegsOf("capture") :
                 Runs(path_seq[i][2], SquareNode(victim_sq), NextSlotNode(Color(victim)))

\* applying an en passant move appends the captured pawn to its colour's list
C4_Move ==
    (Moved /\ is_en_passant(chess_board, AppliedMove)) =>
        LET victim == piece_at(chess_board, VictimSquare(AppliedMove))
        IN IF Color(victim) = WHITE
           THEN /\ captured_white' = Append(captured_white, victim)
                /\ captured_black' = captured_black
           ELSE /\ captured_black' = Append(captured_black, victim)
                /\ captured_white' = captured_white

\* C4: for an en passant move the capture leg planned by plan_path starts at
\* the node of the square holding the captured pawn (origin rank of the
\* capturing pawn, destination file), not at the node of the destination
\* square, and move_piece appends that pawn's symbol to the captured list of
\* the pawn's colour.
C4_EnPassantVictim == []C4_Plan /\ [][C4_Move]_vars

\* an en passant capture has been planned, its capture leg found a route
C4_Witness ==
    /\ PlannedEnPassant
    /\ \E i \in LegsOf("capture") : Len(path_seq[i][2]) > 1

\* the planned move takes the piece on its destination square and does not
\* promote
PlannedCapture ==
    /\ Planned
    /\ piece_at(chess_board, PlannedMove.to_square) # None
    /\ PlannedMove.promotion = None

\* the two legs of an ordinary capture
C5_Plan ==
    PlannedCapture =>
        LET victim == piece_at(chess_board, PlannedMove.to_square)
        IN /\ Len(path_seq) = 2
           /\ path_seq[1][1] = "capture"
           /\ Runs(path_seq[1][2], EndNode, NextSlotNode(Color(victim)))
           /\ path_seq[2][1] = "move"
           /\ Runs(path_seq[2][2], StartNode, EndNode)

\* applying an ordinary capture appends the piece taken to its colour's list
C5_Move ==
    LET victim == piece_at(chess_board, AppliedMove.to_square)
    IN (Moved /\ victim # None /\ AppliedMove.promotion = None) =>
           IF Color(victim) = WHITE
           THEN captured_white' = Append(captured_white, victim)
           ELSE captured_black' = Append(captured_black, victim)

\* C5: for an ordinary (non en passant, non-promoting) capture plan_path
\* yields exactly two legs in this order: a capture leg from the destination
\* square's node to the node of the lowest-indexed free capture slot of the
\* captured piece's colour, then a move leg from the mover's start node to
\* the destination node; move_piece appends the captured piece's symbol to
\* that colour's captured list.
C5_OrdinaryCapture == []C5_Plan /\ [][C5_Move]_vars

\* a capture has been planned when the first slot of the colour is taken
C5_Witness ==
    /\ PlannedCapture
    /\ Color(piece_at(chess_board, PlannedMove.to_square)) = BLACK
    /\ Len(captured_black) >= 1
    /\ Len(path_seq) = 2
\* the planned move is castling: the king is displaced by more than one file
PlannedCastling ==
    /\ Planned
    /\ PlannedPiece \in {"K", "k"}
    /\ Abs(square_file(PlannedMove.to_square) - square_file(PlannedMove.from_square)) > 1

\* the side the king goes to (+1 towards the h-file, -1 towards the a-file)
CastleSide == Sgn(square_file(PlannedMove.to_square) - square_file(PlannedMove.from_square))

\* the corner of the king's rank on the side the king goes to, and the
\* square next to the king's destination on the side the king came from
RookCorner == square(IF CastleSide = 1 THEN 7 ELSE 0, square_rank(PlannedMove.from_square))
RookTarget ==
    square(square_file(PlannedMove.to_square) - CastleSide, square_rank(PlannedMove.from_square))

\* C6: for a castling move plan_path yields exactly two legs in this order:
\* castle_king from the king's start node to its destination node, then
\* castle_rook from the same-side rook's start node to the node of the
\* square next to the king's destination on the side the king came from.
C6_CastlingLegs ==
    PlannedCastling =>
        /\ piece_at(chess_board, RookCorner) = (IF chess_board.turn THEN "R" ELSE "r")
        /\ Len(path_seq) = 2
        /\ path_seq[1][1] = "castle_king"
        /\ Runs(path_seq[1][2], StartNode, EndNode)
        /\ path_seq[2][1] = "castle_rook"
        /\ Runs(path_seq[2][2], SquareNode(RookCorner), SquareNode(RookTarget))

\* castling towards the a-file has been planned
C6_Witness == PlannedCastling /\ CastleSide = -1 /\ Len(path_seq) = 2

\* the nodes of a path
NodesOf(path) == {path[j] : j \in 1..Len(path)}

\* C7: a leg planned while a node is temporarily blocked never visits that
\* node: the castle_rook path never contains the king's destination node,
\* and the promotion_piece path never contains the lane node where the pawn
\* waits.
C7_BlockedNodeAvoided ==
    Planned =>
        /\ \A i \in LegsOf("castle_rook") : EndNode \notin NodesOf(path_seq[i][2])
        /\ \A i \in LegsOf("promotion_piece") :
              /\ path_seq[i - 1][1] = "promotion_pawn"
              /\ path_seq[i - 1][2] # <<>>
              /\ path_seq[i - 1][2][Len(path_seq[i - 1][2])] \notin NodesOf(path_seq[i][2])

\* a rook leg and a bank piece's leg that found their way
C7_WitnessRook == Planned /\ \E i \in LegsOf("castle_rook") : Len(path_seq[i][2]) > 1
C7_WitnessPiece == Planned /\ \E i \in LegsOf("promotion_piece") : Len(path_seq[i][2]) > 1

\* the planned move is a promotion onto an empty square, and the mover's
\* lane shows an entry of the kind asked for
PromoCol == IF chess_board.turn THEN 0 ELSE state_cols - 1
LaneCol == IF chess_board.turn THEN 1 ELSE node_cols - 2
PromoSymbol(m) == IF chess_board.turn THEN Upper(m.promotion) ELSE m.promotion
BankRows(m) ==
    {r \in 0..(state_rows - 1) : state_board[<<r, PromoCol>>] = PromoSymbol(m)}
PlannedPromotion ==
    /\ Planned
    /\ PlannedMove.promotion # None
    /\ piece_at(chess_board, PlannedMove.to_square) = None
    /\ BankRows(PlannedMove) # {}

\* the three legs of a promotion, for a row r of the lane holding the kind
C8_Plan ==
    PlannedPromotion =>
        /\ Len(path_seq) = 3
        /\ path_seq[1][1] = "promotion_pawn"
        /\ path_seq[2][1] = "promotion_piece"
        /\ path_seq[3][1] = "promotion_pawn_final"
        /\ \E r \in BankRows(PlannedMove) :
              /\ Runs(path_seq[1][2], StartNode, <<2 * r, LaneCol>>)
              /\ Runs(path_seq[2][2], <<2 * r, 2 * PromoCol>>, EndNode)
              /\ path_seq[3][2] = << <<2 * r, LaneCol>>, <<2 * r, 2 * PromoCol>> >>

\* the move planned is applied: the lane row the legs go to reads as a pawn
C8_Move ==
    (PlannedPromotion /\ Moved) =>
        state_board'[<<path_seq[3][2][2][1] \div 2, PromoCol>>]
            = (IF chess_board.turn THEN "P" ELSE "p")

\* C8: for a non-capturing promotion whose kind has an untouched entry in
\* the mover's bank at lane row r, plan_path yields exactly three legs in
\* this order: the pawn's outbound leg (start node to the lane node next to
\* the bank piece of row r), promotion_piece (bank piece's node to the
\* destination node) and promotion_pawn_final, the two-node path from the
\* lane node to the bank node; after move_piece applies the move, bank row r
\* reads as a pawn marker.
C8_PromotionLegs == []C8_Plan /\ [][C8_Move]_vars

\* a second promotion to a kind has been planned by each colour in turn
C8_Witness ==
    /\ PlannedPromotion
    /\ CountOf(IF chess_board.turn THEN white_promos ELSE black_promos,
               IF chess_board.turn THEN "P" ELSE "p") >= 1
\* the start and the goal plan_path asks the search for, leg by leg
ReqStart(i) ==
    CASE path_seq[i][1] = "castle_rook" -> SquareNode(RookCorner)
      [] path_seq[i][1] = "capture" ->
            IF PlannedEnPassant THEN SquareNode(VictimSquare(PlannedMove)) ELSE EndNode
      [] path_seq[i][1] = "promotion_piece" -> path_seq[Len(path_seq)][2][2]
      [] OTHER -> StartNode
ReqGoal(i) ==
    CASE path_seq[i][1] = "castle_rook" -> SquareNode(RookTarget)
      [] path_seq[i][1] = "capture" -> NextSlotNode(~chess_board.turn)
      [] path_seq[i][1] = "promotion_pawn" -> path_seq[Len(path_seq)][2][1]
      [] OTHER -> EndNode

Chebyshev(a, b) == Max(Abs(a[1] - b[1]), Abs(a[2] - b[2]))

\* a path the search returned for start and goal: it is not-found, or runs
\* from start to goal inside the grid by steps of length one
ValidPath(path, start, goal, dist(_, _)) ==
    path # <<>> =>
        /\ Runs(path, start, goal)
        /\ NodesOf(path) \subseteq NodeCells
        /\ \A j \in 1..(Len(path) - 1) : dist(path[j], path[j + 1]) = 1
        /\ start = goal => path = <<start>>

\* C9: every non-empty path returned by the pathfinder starts at the
\* requested start node (the single-node path when start equals goal), ends
\* at the requested goal node, stays inside the node grid, and consecutive
\* nodes are one adjacency step apart: Chebyshev distance 1 for the search
\* of plan_path, Manhattan distance 1 for _direct_path.
C9_PathsValid ==
    /\ Planned =>
          \A i \in SearchedLegs :
              ValidPath(path_seq[i][2], ReqStart(i), ReqGoal(i), Chebyshev)
    /\ last_op = "direct" =>
          ValidPath(path_seq[1][2], last_uci[1], last_uci[2], man_dist)

\* _direct_path has answered with a path of several steps
C9_Witness == last_op = "direct" /\ Len(path_seq[1][2]) >= 5

\* the other cases of C9: a leg of plan_path with a diagonal step, and
\* _direct_path asked for a node from itself
C9_WitnessDiagonal ==
    /\ Planned
    /\ \E i \in SearchedLegs : \E j \in 1..(Len(path_seq[i][2]) - 1) :
          man_dist(path_seq[i][2][j], path_seq[i][2][j + 1]) = 2
C9_WitnessSingle == last_op = "direct" /\ last_uci[1] = last_uci[2] /\ Len(path_seq[1][2]) = 1

\* C10: the path the A* search of plan_path returns is a shortest path: no
\* path from start to goal over the same neighbour relation, every step
\* costing 1, has fewer steps.
C10_ShortestPath ==
    Planned =>
        \A i \in SearchedLegs :
            path_seq[i][2] # <<>> =>
                Len(path_seq[i][2]) - 1 =
                    ShortestSteps(SearchGrid(i), path_seq[i][2][1],
                                  path_seq[i][2][Len(path_seq[i][2])])
\* the nodes of a path strictly between its first and its last
Intermediate(path) == {path[j] : j \in 2..(Len(path) - 1)}

\* C11: no path returned by the pathfinder contains, other than as its first
\* node or its goal node, a node whose cell holds a piece symbol or the block
\* marker '#': every intermediate node holds the empty marker or a numeric
\* capture-slot placeholder at the time of the search.
C11_IntermediateFree ==
    /\ Planned =>
          \A i \in SearchedLegs : \A n \in Intermediate(path_seq[i][2]) :
              SearchGrid(i)[n] = "." \/ IsDigit(SearchGrid(i)[n])
    /\ last_op = "direct" =>
          \A n \in Intermediate(path_seq[1][2]) :
              node_grid[n] = "." \/ IsDigit(node_grid[n])

\* a planned leg passes over a free capture slot
C11_Witness ==
    /\ Planned
    /\ \E i \in SearchedLegs : \E n \in Intermediate(path_seq[i][2]) : IsDigit(node_grid[n])

\* _direct_path has answered with a path that has intermediate nodes
C11_WitnessDirect == last_op = "direct" /\ Len(path_seq[1][2]) >= 3
\* whether the goal can be reached from a frontier by the orthogonal steps
\* _direct_path takes: onto empty nodes, or onto the goal
RECURSIVE DirectReach(_, _, _, _)
DirectReach(grid, goal, frontier, seen) ==
    IF goal \in frontier THEN TRUE
    ELSE IF frontier = {} THEN FALSE
    ELSE LET next == {m \in NodeCells :
                         /\ \E n \in frontier : man_dist(n, m) = 1
                         /\ grid[m] = "." \/ m = goal} \ seen
         IN DirectReach(grid, goal, next, seen \cup next)

\* the state in which the while loop of astar(start, goal) is left, if it is
\* left within MaxPops iterations
AStarEnd(grid, start, goal) ==
    AStarRun(grid, goal,
             [open_set |-> {<<man_dist(start, goal), 0, start, <<start>>>>},
              visited |-> {}, done |-> FALSE, path |-> <<>>],
             MaxPops)

\* C12: the pathfinder terminates on every node grid and every start/goal
\* pair: between two distinct nodes of which the second can be reached it
\* returns a path with at least one step, and when the goal cannot be
\* reached it returns not-found (None from astar, [] from _direct_path)
\* after finitely many expansions.
C12_SearchEnds ==
    /\ last_op = "astar" =>
          LET s == last_uci[1]
              g == last_uci[2]
              path == path_seq[1][2]
              end == AStarEnd(node_grid, s, g)
              reach == ShortestSteps(node_grid, s, g) # -1
          IN /\ end.done
             /\ end.visited \subseteq NodeCells
             /\ end.path = path
             /\ reach <=> path # <<>>
             /\ (reach /\ s # g) => Len(path) >= 2
    /\ last_op = "direct" =>
          LET s == last_uci[1]
              e == last_uci[2]
              path == path_seq[1][2]
              reach == DirectReach(node_grid, e, {s}, {s})
          IN /\ reach <=> path # <<>>
             /\ (reach /\ s # e) => Len(path) >= 2

\* astar has answered not-found after expanding every node it could reach
C12_Witness ==
    /\ last_op = "astar"
    /\ path_seq[1][2] = <<>>
    /\ Cardinality(AStarEnd(node_grid, last_uci[1], last_uci[2]).visited) > 100

\* _direct_path has answered not-found, and has answered with a path
C12_WitnessDirectNone == last_op = "direct" /\ path_seq[1][2] = <<>>
C12_WitnessDirectPath == last_op = "direct" /\ Len(path_seq[1][2]) >= 2
\* the step is a call of plan_path that returned or raised
PlanCalled == last_op' \in {"plan", "plan_raised"}

\* C13: plan_path leaves all board state as it found it on every outcome,
\* including when a leg's search finds no route: after it returns, the node
\* grid (every cell, the nodes temporarily marked '#' included), the state
\* grid, the chess position, both captured lists and both promotion banks
\* equal their values before the call.
C13_PlanPreserves ==
    [][PlanCalled =>
        /\ node_grid' = node_grid
        /\ state_board' = state_board
        /\ chess_board' = chess_board
        /\ captured_white' = captured_white
        /\ captured_black' = captured_black
        /\ white_promos' = white_promos
        /\ black_promos' = black_promos]_vars

\* a leg searched with a node blocked found no route
C13_Witness ==
    /\ Planned
    /\ \E i \in LegsOf("castle_rook") \cup LegsOf("promotion_piece") : path_seq[i][2] = <<>>

\* the other outcomes: both blocked legs routed, and plan_path raising
C13_WitnessRouted ==
    /\ Planned
    /\ \E i \in LegsOf("promotion_piece") : Len(path_seq[i][2]) > 1
C13_WitnessRaised == last_op = "plan_raised"
SquareCell(sq) == <<8 - square_rank(sq), square_file(sq) + 2>>

\* the board region of the state grid shows the chess position
C15_Mirror ==
    \A sq \in Squares :
        state_board[SquareCell(sq)] =
            IF piece_at(chess_board, sq) = None THEN "." ELSE piece_at(chess_board, sq)

\* a move without promotion leaves its origin empty and the mover on its
\* destination
C15_Move ==
    (Moved /\ AppliedMove.promotion = None) =>
        /\ state_board'[SquareCell(AppliedMove.from_square)] = "."
        /\ state_board'[SquareCell(AppliedMove.to_square)]
               = piece_at(chess_board, AppliedMove.from_square)

\* C15: after every move applied by move_piece the board region of the state
\* grid mirrors the chess position: the cell (8-k, f+2) of the square with
\* file f and rank k holds the symbol of the piece on it, or the empty
\* marker; in particular after an ordinary move the origin cell reads empty
\* and the destination cell reads the mover's symbol.
C15_BoardMirrored == []C15_Mirror /\ [][C15_Move]_vars

\* moves have been applied, a capture among them
C15_Witness ==
    /\ last_op = "move"
    /\ Len(captured_white) + Len(captured_black) >= 1
    /\ state_board # populate_state_board(StartBoard, <<>>, <<>>, InitWhitePromos, InitBlackPromos)

\* the node grid is the derivation of the state grid: node (2r, 2c) holds
\* state cell (r, c), every node with an odd row or an odd column is empty
NodeGridDerived ==
    /\ \A c \in StateCells : node_grid[<<2 * c[1], 2 * c[2]>>] = state_board[c]
    /\ \A n \in NodeCells : (n[1] % 2 = 1 \/ n[2] % 2 = 1) => node_grid[n] = "."

\* the step changes one of the grids
GridsChange == state_board' # state_board \/ node_grid' # node_grid

\* C16 as stated: between calls, after any sequence of move_piece, plan_path
\* and reset_board_physical calls, the node grid is the derivation of the
\* state grid.
C16_AlwaysDerived == NodeGridDerived

\* C16: between calls, after any sequence of move_piece, plan_path and
\* update_from_chess calls, the node grid is the derivation of the state
\* grid, and these calls change the grids only by full re-derivation
\* (plan_path returns with the node grid as it found it).
\* reset_board_physical is no such call: it leaves the state grid alone and
\* writes the pieces it carries onto the node grid, so that after a reset
\* that carried a piece the node grid is not the derivation of the state
\* grid.
C16_DerivedOutsideReset ==
    /\ [](last_op # "reset" => NodeGridDerived)
    /\ [][/\ (GridsChange /\ last_op' # "reset") =>
                 (last_op' \in {"move", "update"} /\ NodeGridDerived')
          /\ last_op' = "reset" =>
                 /\ state_board' = state_board
                 /\ path_seq' # <<>> => ~NodeGridDerived']_vars

\* a castling has been planned, with its temporary block on the node grid,
\* after moves that each re-derived the grids
C16_Witness == PlannedCastling /\ Len(chess_board.move_stack) > 1 /\ NodeGridDerived

\* a reset has carried pieces and left the node grid off the derivation
C16_WitnessReset == last_op = "reset" /\ path_seq # <<>> /\ ~NodeGridDerived

\* the grids are derived again by update_from_chess after a reset
C16_WitnessRederived ==
    /\ last_op = "update"
    /\ path_seq # <<>> /\ path_seq[1][1] = "move"
    /\ \E g \in Games : chess_board.move_stack = GameStack(g, Len(g))
    /\ NodeGridDerived

\* the step is a call of move_piece or plan_path; its input string is last_uci'
InputCalled == last_op' \in {"move", "move_raised", "plan", "plan_raised"}

\* a string that is a legal move in a position: it has the form of a move,
\* is not the null-move notation, and the move is legal
LegalInput(cb, u) ==
    /\ Len(u) \in {4, 5}
    /\ u # NullUci
    /\ UciParses(u)
    /\ is_legal(cb, FromChess960(cb, FromUci(u)))

\* the step ended in an error and left the board state as it was
FailedUnchanged ==
    /\ last_op' \in {"move_raised", "plan_raised"}
    /\ UNCHANGED <<chess_board, captured_white, captured_black, white_promos,
                   black_promos, state_board, node_grid>>

\* C17: for every input string that is not a legal move in the current
\* position (malformed, well-formed but illegal, or the null-move notation)
\* move_piece and plan_path fail with an error and leave the chess position,
\* both captured lists, both promotion banks and both grids unchanged.
C17_IllegalInputFails ==
    [][(InputCalled /\ ~LegalInput(chess_board, last_uci')) => FailedUnchanged]_vars

\* C17, the part the code keeps: malformed strings and moves that are not
\* legal are refused by move_piece and by plan_path with nothing changed.
C17_RefusedUnchanged ==
    [][(InputCalled /\ last_uci' # NullUci /\ ~LegalInput(chess_board, last_uci'))
           => FailedUnchanged]_vars

\* move_piece has taken the null move at the start: a white rook stands in the
\* captured list though no piece left the board
C17_WitnessNullMove ==
    /\ last_op = "move" /\ last_uci = NullUci
    /\ captured_white = <<"R">>
    /\ Cardinality({sq \in Squares : piece_at(chess_board, sq) # None}) = 32

\* plan_path has returned legs for the null move
C17_WitnessNullPlan == last_op = "plan" /\ last_uci = NullUci /\ path_seq # <<>>

\* a malformed string and an illegal move have been refused
C17_WitnessMalformed == last_op = "move_raised" /\ ~UciParses(last_uci)
C17_WitnessIllegal ==
    /\ last_op = "plan_raised" /\ UciParses(last_uci) /\ last_uci # NullUci
    /\ ~is_legal(chess_board, parse_uci(chess_board, last_uci))

\* the piece a move takes off the board by the rules of chess: the pawn
\* passed for en passant, else an opposing piece on the destination square;
\* None for every other move, the null move among them
Victim(cb, m) ==
    IF m.null THEN None
    ELSE IF is_en_passant(cb, m) THEN piece_at(cb, VictimSquare(m))
    ELSE IF piece_at(cb, m.to_square) # None /\ Color(piece_at(cb, m.to_square)) # cb.turn
    THEN piece_at(cb, m.to_square)
    ELSE None

\* a list is another one with entries added at the end
Extends(new, old) == Len(new) >= Len(old) /\ SubSeq(new, 1, Len(old)) = old

\* C18: move_piece appends exactly one symbol, the captured piece's, to the
\* captured list of the captured piece's colour when the move is a capture
\* (ordinary or en passant), and leaves both captured lists unchanged for
\* every other move (castling included); a captured list is never shortened
\* or reordered.
C18_CapturedLists ==
    /\ [][Moved =>
            LET v == Victim(chess_board, AppliedMove)
            IN /\ captured_white' = IF v # None /\ Color(v) = WHITE
                                    THEN Append(captured_white, v) ELSE captured_white
               /\ captured_black' = IF v # None /\ Color(v) = BLACK
                                    THEN Append(captured_black, v) ELSE captured_black]_vars
    /\ [][Extends(captured_white', captured_white)
          /\ Extends(captured_black', captured_black)]_vars

\* move_piece has taken the null move with Black to move, after a capture:
\* the a1 rook follows the captured piece into the lists
C18_Witness ==
    /\ last_op = "move" /\ last_uci = NullUci
    /\ captured_black # <<>>
    /\ captured_white # <<>> /\ captured_white[Len(captured_white)] = "R"
    /\ piece_at(chess_board, 0) = "R"

\* captures of both colours, an en passant capture and a castling have been
\* applied
C18_WitnessCaptures ==
    /\ last_op = "move"
    /\ captured_white # <<>> /\ captured_black # <<>>
    /\ \E i \in 1..Len(chess_board.move_stack) :
           LET m == chess_board.move_stack[i]
           IN Abs(square_file(m.to_square) - square_file(m.from_square)) = 2
              /\ square_rank(m.to_square) = square_rank(m.from_square)
              /\ piece_at(chess_board, m.to_square) \in {"K", "k"}

\* the pawn markers of the two banks
WhiteMarkers == {i \in 1..Len(white_promos) : white_promos[i] = "P"}
BlackMarkers == {i \in 1..Len(black_promos) : black_promos[i] = "p"}

\* C19: a promotion-bank entry that has been replaced by a pawn marker stays
\* a pawn marker for the rest of the game: no later move_piece call, of
\* either colour, changes it back or selects it again for a promotion (the
\* entry a step changes was no pawn marker before the step).
C19_MarkersStay ==
    [][/\ \A i \in WhiteMarkers : white_promos'[i] = "P"
       /\ \A i \in BlackMarkers : black_promos'[i] = "p"
       /\ \A i \in 1..Len(white_promos) :
              white_promos'[i] # white_promos[i] => (i \notin WhiteMarkers /\ Moved)
       /\ \A i \in 1..Len(black_promos) :
              black_promos'[i] # black_promos[i] => (i \notin BlackMarkers /\ Moved)]_vars

\* a second promotion has been applied while the bank already held a pawn
\* marker, and a move has followed it
C19_Witness ==
    /\ last_op = "move"
    /\ Cardinality(WhiteMarkers) >= 2
    /\ chess_board.move_stack[Len(chess_board.move_stack)].promotion = None

\* entries of two kinds have been replaced
C19_WitnessKinds ==
    /\ last_op = "move"
    /\ \E i, j \in WhiteMarkers : InitWhitePromos[i] # InitWhitePromos[j]

\* a black entry has been replaced
C19_WitnessBlack == last_op = "move" /\ BlackMarkers # {}

\* the bank of the side to move holds no entry of the kind a promotion string
\* asks for
BankLacks(cb, wp, bp, u) ==
    LET bank == IF cb.turn = WHITE THEN wp ELSE bp
    IN \A i \in 1..Len(bank) : Upper(bank[i]) # Upper(u[5])

\* the step is a plan_path call for a legal promotion whose kind the mover's
\* bank no longer holds
PlanCalledBankEmpty ==
    /\ PlanCalled
    /\ Len(last_uci') = 5
    /\ ParseOk(chess_board, last_uci')
    /\ BankLacks(chess_board, white_promos, black_promos, last_uci')

\* C20: when the mover's bank holds no entry of the requested promotion kind,
\* plan_path for that promotion does not abort: it returns a leg list in which
\* the unroutable legs have empty paths.
C20_NoAbort ==
    [][PlanCalledBankEmpty =>
          /\ last_op' = "plan"
          /\ path_seq' # <<>>
          /\ \E i \in 1..Len(path_seq') : path_seq'[i][2] = <<>>]_vars

\* plan_path has raised on a legal promotion with the bank exhausted
C20_Witness ==
    /\ last_op = "plan_raised"
    /\ Len(last_uci) = 5
    /\ ParseOk(chess_board, last_uci)
    /\ BankLacks(chess_board, white_promos, black_promos, last_uci)
    /\ path_seq = <<>>

\* the step is a move_piece call for a promotion whose kind the mover's bank
\* no longer holds
MovedBankEmpty ==
    /\ last_op' \in {"move", "move_raised"}
    /\ Len(last_uci') = 5
    /\ ParseOk(chess_board, last_uci')
    /\ BankLacks(chess_board, white_promos, black_promos, last_uci')

\* C21: when the mover's bank holds no entry of the requested promotion kind,
\* move_piece reports a fatal error for that promotion instead of applying
\* it; it never applies a promotion while leaving the bank unchanged.
C21_FatalOnEmptyBank ==
    [][MovedBankEmpty =>
          /\ last_op' = "move_raised"
          /\ chess_board' = chess_board]_vars

\* a third white knight promotion has been applied: the bank held two
\* knights, holds two pawn markers, and the promoted knight is on the board
C21_Witness ==
    /\ last_op = "move"
    /\ Len(last_uci) = 5 /\ last_uci[5] = "n"
    /\ ~chess_board.turn
    /\ piece_at(chess_board, chess_board.move_stack[Len(chess_board.move_stack)].to_square) = "N"
    /\ Cardinality({i \in 1..Len(white_promos) : white_promos[i] = "P"}) = 2
    /\ Cardinality({i \in 1..Len(chess_board.move_stack) :
                       chess_board.move_stack[i].promotion # None}) = 3

(***************************************************************************)
(* C23  The command stream of a leg list                                   *)
(***************************************************************************)
\* the number of lines the legs before leg i account for
RECURSIVE LinesBefore(_, _)
LinesBefore(legs, i) ==
    IF i <= 1 THEN 0
    ELSE LinesBefore(legs, i - 1)
         + (IF legs[i - 1][2] = <<>> THEN 0 ELSE Len(legs[i - 1][2]) + 3)

\* the lines from position at on are those of path p: G0 to p[0], servo_up,
\* a G1 to every node of p in order, servo_down
LegBlock(lines, at, p) ==
    /\ Len(lines) >= at + Len(p) + 3
    /\ lines[at + 1] = <<"G0", p[1][1] * 1000, p[1][2] * 1000>>
    /\ lines[at + 2] = <<"servo_up">>
    /\ \A k \in 1..Len(p) : lines[at + 2 + k] = <<"G1", p[k][1] * 1000, p[k][2] * 1000, 150>>
    /\ lines[at + Len(p) + 3] = <<"servo_down">>

\* the sentinels among the first k lines
ServoUps(lines, k) == Cardinality({j \in 1..k : lines[j] = <<"servo_up">>})
ServoDowns(lines, k) == Cardinality({j \in 1..k : lines[j] = <<"servo_down">>})

\* servo_up and servo_down alternate from servo_up on, motion at feed rate
\* happens only while engaged and rapid motion only while released
Alternates(lines) ==
    \A j \in 1..Len(lines) :
        LET engaged == ServoUps(lines, j - 1) - ServoDowns(lines, j - 1)
        IN /\ engaged \in {0, 1}
           /\ lines[j] = <<"servo_up">> => engaged = 0
           /\ lines[j] = <<"servo_down">> => engaged = 1
           /\ lines[j][1] = "G1" => engaged = 1
           /\ lines[j][1] = "G0" => engaged = 0

\* C23: whatever legs the planner holds, generate_gcode gives, leg by leg in
\* order, for each leg with a non-empty path p the lines G0 p[0], servo_up,
\* G1 for every node of p, servo_down and nothing else, each coordinate the
\* node index times the spacing; so the sentinels alternate from servo_up
\* on, every G1 lies inside a servo_up/servo_down pair and every G0 outside
C23_GcodeStream ==
    LET lines == generate_gcode(path_seq)
    IN /\ Len(lines) = LinesBefore(path_seq, Len(path_seq) + 1)
       /\ \A i \in 1..Len(path_seq) :
              path_seq[i][2] # <<>> =>
                  LegBlock(lines, LinesBefore(path_seq, i), path_seq[i][2])
       /\ Alternates(lines)
       /\ ServoUps(lines, Len(lines)) = ServoDowns(lines, Len(lines))

\* a promotion has been planned: three legs, each with a path, and a stream
\* of three blocks
C23_Witness ==
    /\ last_op = "plan"
    /\ Len(path_seq) = 3
    /\ \A i \in 1..3 : Len(path_seq[i][2]) >= 2
    /\ Len(generate_gcode(path_seq)) = Len(path_seq[1][2]) + Len(path_seq[2][2])
                                        + Len(path_seq[3][2]) + 9

\* a capture has been planned whose first leg found no route: the stream is
\* the block of the second leg alone
C23_WitnessEmptyLeg ==
    /\ last_op = "plan"
    /\ Len(path_seq) = 2
    /\ path_seq[1][2] = <<>>
    /\ path_seq[2][2] # <<>>
    /\ Len(generate_gcode(path_seq)) = Len(path_seq[2][2]) + 3

(***************************************************************************)
(* C22  A leg without a route                                              *)
(***************************************************************************)
\* the legs whose search found no route
EmptyLegs == {i \in 1..Len(path_seq) : path_seq[i][2] = <<>>}

\* the number of legs the planned move calls for
LegsCalledFor ==
    IF PlannedCastling THEN 2
    ELSE (IF piece_at(chess_board, PlannedMove.to_square) # None
             \/ is_en_passant(chess_board, PlannedMove) THEN 1 ELSE 0)
         + (IF PlannedMove.promotion # None THEN 3 ELSE 1)

\* the legs that have a path, in order
RoutedLegs == SelectSeq(path_seq, LAMBDA leg : leg[2] # <<>>)

RECURSIVE SumLen(_)
SumLen(legs) == IF legs = <<>> THEN 0 ELSE Len(legs[1][2]) + 3 + SumLen(Tail(legs))

C22_Plan ==
    (Planned /\ EmptyLegs # {}) =>
        /\ Len(path_seq) = LegsCalledFor
        /\ generate_gcode(path_seq) = generate_gcode(RoutedLegs)
        /\ Len(generate_gcode(path_seq)) = SumLen(RoutedLegs)
        /\ Cardinality({j \in 1..Len(generate_gcode(path_seq)) :
                            generate_gcode(path_seq)[j][1] \in {"G0", "servo_up"}})
               = 2 * Len(RoutedLegs)
        /\ ENABLED MovePiece(last_uci)

C22_Move ==
    (Planned /\ EmptyLegs # {} /\ Moved) =>
        /\ last_uci' = last_uci
        /\ chess_board'.move_stack = Append(chess_board.move_stack, PlannedMove)
        /\ chess_board' = push(chess_board, PlannedMove)

\* C22: when a leg's search finds no route, plan_path has returned with that
\* leg in the list carrying an empty path, generate_gcode has no line for it
\* (the stream is that of the other legs alone), and move_piece can follow
\* and applies the chess move all the same
C22_EmptyLegSkipped == []C22_Plan /\ [][C22_Move]_vars

\* castling queenside was planned with the rook's square walled in: the
\* king's leg has a path, the rook's leg has none
C22_Witness ==
    /\ Planned
    /\ Len(path_seq) = 2
    /\ path_seq[1][1] = "castle_king" /\ path_seq[1][2] # <<>>
    /\ path_seq[2][1] = "castle_rook" /\ path_seq[2][2] = <<>>
    /\ Len(generate_gcode(path_seq)) = Len(path_seq[1][2]) + 3

(***************************************************************************)
(* C26  The capture leg comes first                                        *)
(***************************************************************************)
\* the kinds of leg that carry the moving piece or its replacement
MoverKinds == {"move", "promotion_pawn", "promotion_piece", "promotion_pawn_final"}

\* C26: in every leg list plan_path returns a capture leg, if there is one,
\* is the first leg and the only one of its kind, every leg after it is a
\* leg of the moving piece, and so the command stream opens with the rapid
\* move to the captured piece, not to the mover
C26_CaptureFirst ==
    (Planned /\ LegsOf("capture") # {}) =>
        /\ LegsOf("capture") = {1}
        /\ Len(path_seq) >= 2
        /\ \A j \in 2..Len(path_seq) : path_seq[j][1] \in MoverKinds
        /\ path_seq[2][2][1] = StartNode
        /\ path_seq[1][2][1] # StartNode
        /\ generate_gcode(path_seq)[1] = G0Line(path_seq[1][2][1])

\* a capturing promotion has been planned: the capture leg and the three
\* promotion legs after it
C26_Witness ==
    /\ Planned
    /\ Len(path_seq) = 4
    /\ path_seq[1][1] = "capture"
    /\ path_seq[2][1] = "promotion_pawn"

\* an en passant capture has been planned: the victim's leg, then the pawn's
C26_WitnessEnPassant ==
    /\ PlannedEnPassant
    /\ Len(path_seq) = 2
    /\ path_seq[1][1] = "capture"
    /\ path_seq[2][1] = "move"

(***************************************************************************)
(* C27  The adjacency of castling and capture legs                         *)
(***************************************************************************)
\* the castling legs and the capture leg of the planned list
RelocationLegs == LegsOf("castle_king") \cup LegsOf("castle_rook") \cup LegsOf("capture")

\* the steps of a path that change both row and column
DiagonalSteps(path) ==
    {j \in 1..(Len(path) - 1) : path[j][1] # path[j + 1][1] /\ path[j][2] # path[j + 1][2]}

\* C27 as stated: castling legs and capture legs are routed with orthogonal
\* 4-neighbour adjacency, so no two consecutive nodes of such a leg differ
\* in both row and column
C27_Orthogonal ==
    Planned => \A i \in RelocationLegs : DiagonalSteps(path_seq[i][2]) = {}

\* C27 amended: castling legs and capture legs are routed with the same
\* 8-neighbour adjacency as every other leg: consecutive nodes are one king's
\* step apart, and the rook's leg of a castling, searched with the king's
\* destination blocked, goes round it with a diagonal step out of the rank
\* and one back into it
C27_Octile ==
    Planned =>
        /\ \A i \in RelocationLegs :
               \A j \in 1..(Len(path_seq[i][2]) - 1) :
                   Chebyshev(path_seq[i][2][j], path_seq[i][2][j + 1]) = 1
        /\ \A i \in LegsOf("castle_rook") :
               Cardinality(DiagonalSteps(path_seq[i][2])) >= 2

\* castling has been planned and the rook's leg has steps that change row
\* and column at once
C27_Witness ==
    /\ PlannedCastling
    /\ \E i \in LegsOf("castle_rook") : DiagonalSteps(path_seq[i][2]) # {}

\* a capture leg with a diagonal step
C27_WitnessCapture ==
    /\ Planned
    /\ \E i \in LegsOf("capture") : DiagonalSteps(path_seq[i][2]) # {}

(***************************************************************************)
(* C28  No corner is cut                                                   *)
(***************************************************************************)
\* what blocks a corner: a piece symbol or the block marker
Obstacle(cell) == cell = "#" \/ cell \in PieceSymbols

\* the diagonal steps of leg i that pass a corner holding an obstacle on the
\* grid the leg was searched on
CutCorners(i) ==
    {j \in DiagonalSteps(path_seq[i][2]) :
        LET a == path_seq[i][2][j]
            b == path_seq[i][2][j + 1]
            grid == IF i \in SearchedLegs THEN SearchGrid(i) ELSE node_grid
        IN Obstacle(grid[<<a[1], b[2]>>]) \/ Obstacle(grid[<<b[1], a[2]>>])}

\* C28: no path planned by plan_path takes a diagonal step while one of the
\* two cells beside that step (in the row of one end and the column of the
\* other) holds a piece symbol or the block marker
C28_NoCornerCut == Planned => \A i \in 1..Len(path_seq) : CutCorners(i) = {}

\* a leg has been planned that passes a piece by the long way round: it has
\* a diagonal step, and an orthogonal step whose diagonal shortcut was barred
\* by an obstacle at the corner
C28_Witness ==
    /\ Planned
    /\ \E i \in SearchedLegs :
           LET p == path_seq[i][2]
           IN /\ DiagonalSteps(p) # {}
              /\ \E j \in 1..(Len(p) - 2) :
                     /\ Chebyshev(p[j], p[j + 2]) = 1
                     /\ p[j][1] # p[j + 2][1] /\ p[j][2] # p[j + 2][2]
                     /\ Obstacle(SearchGrid(i)[<<p[j][1], p[j + 2][2]>>])
                        \/ Obstacle(SearchGrid(i)[<<p[j + 2][1], p[j][2]>>])

(***************************************************************************)
(* C25  What a player types                                                *)
(***************************************************************************)
\* the step is a call of plan_path from the prompt, and the step is the
\* move_piece of a turn
TurnPlanned == Prompting /\ last_op' \in {"plan", "plan_raised"}
TurnMoved == last_op = "plan" /\ last_op' = "move"

\* the bookkeeping and both grids are as they were
BoardUnchanged ==
    /\ chess_board' = chess_board
    /\ captured_white' = captured_white
    /\ captured_black' = captured_black
    /\ white_promos' = white_promos
    /\ black_promos' = black_promos
    /\ state_board' = state_board
    /\ node_grid' = node_grid

\* at the prompt every string is either turned away or planned, by its
\* form and legality alone
C25_Prompt ==
    (Prompting /\ Len(chess_board.move_stack) < MaxTurns) =>
        \A u \in TurnInputs(chess_board.move_stack) :
            IF LegalInput(chess_board, u)
            THEN ~ENABLED HumanRejected(u)
            ELSE ENABLED HumanRejected(u) /\ ~ENABLED TurnPlan(u)

C25_Step ==
    /\ TurnPlanned => LegalInput(chess_board, last_uci')
    /\ TurnMoved => LegalInput(chess_board, last_uci) /\ last_uci' = last_uci
    /\ last_op' = "rejected" =>
           /\ ~LegalInput(chess_board, last_uci')
           /\ BoardUnchanged
           /\ pc' = "call" /\ tx' = tx /\ line_no' = line_no

\* C25: in run_game a typed string reaches plan_path and move_piece only if
\* it has 4 or 5 characters, parses as a coordinate move and is legal in the
\* position; every other string is rejected, the prompt comes again, and the
\* position, the captured lists, the banks and the grids are as before
C25_HumanInput == []C25_Prompt /\ [][C25_Step]_vars

\* the null move was typed after a move had been played, and turned away
C25_Witness ==
    /\ last_op = "rejected"
    /\ last_uci = NullUci
    /\ Len(chess_board.move_stack) >= 1

\* turned away for its length, for its notation, and as illegal
C25_WitnessFormat == last_op = "rejected" /\ Len(last_uci) \notin {4, 5}
C25_WitnessNotation == last_op = "rejected" /\ Len(last_uci) \in {4, 5} /\ ~UciParses(last_uci)
C25_WitnessIllegal ==
    /\ last_op = "rejected"
    /\ UciParses(last_uci) /\ last_uci # NullUci

\* an accepted move was planned, sent and applied
C25_WitnessAccepted ==
    /\ last_op = "move"
    /\ last_uci = <<"e", "5", "d", "4">>
    /\ Len(captured_white) = 1

(***************************************************************************)
(* C29  The order of a turn                                                *)
(***************************************************************************)
\* both grids show the bookkeeping as it stands
GridsCurrent ==
    /\ state_board = populate_state_board(chess_board, captured_white, captured_black,
                                          white_promos, black_promos)
    /\ node_grid = populate_node_grid(state_board)

\* the turn's lines not yet handed to send_gcode_line
Unsent == Len(generate_gcode(path_seq)) - line_no

\* the prompt shows only between turns, on grids that show the position;
\* while a turn lasts the position is the one the legs were planned on
C29_Between ==
    /\ Prompting => GridsCurrent /\ path_seq = <<>> /\ line_no = 0
    /\ last_op = "plan" =>
           /\ path_seq = plan_path(chess_board, state_board, node_grid, last_uci).path_seq
           /\ state_board = populate_state_board(chess_board, captured_white, captured_black,
                                                 white_promos, black_promos)
           /\ line_no \in 0..Len(generate_gcode(path_seq))

C29_Step ==
    \* planning happens at the prompt, on the position as it is
    /\ (last_op # "plan" /\ last_op' = "plan") =>
           /\ Prompting
           /\ chess_board' = chess_board /\ state_board' = state_board
           /\ path_seq' = plan_path(chess_board, state_board, node_grid, last_uci').path_seq
           /\ line_no' = 0
    \* a line goes out only in a planned turn, and it is the next of the list
    /\ (tx' # tx /\ Len(tx') > Len(tx) /\ tx'[Len(tx')][1] # "?") =>
           /\ last_op = "plan" /\ Unsent > 0
           /\ tx' = Append(tx, generate_gcode(path_seq)[line_no + 1])
    /\ servo' # servo =>
           /\ last_op = "plan" /\ Unsent > 0
           /\ generate_gcode(path_seq)[line_no + 1] = <<"servo_" \o servo'>>
    /\ line_no' # line_no =>
           \/ last_op = "plan" /\ last_op' = "plan" /\ line_no' = line_no + 1 /\ Unsent > 0
           \/ last_op = "plan" /\ last_op' = "move" /\ line_no' = 0
    /\ (last_op = "plan" /\ last_op' = "plan") => path_seq' = path_seq /\ chess_board' = chess_board
    \* move_piece comes when every line has been sent, once, for the planned
    \* move, and leaves both grids regenerated
    /\ chess_board' # chess_board => last_op = "plan" /\ last_op' = "move"
    /\ (last_op = "plan" /\ last_op' = "move") =>
           /\ Unsent = 0
           /\ pc = "call"
           /\ last_uci' = last_uci
           /\ chess_board' = push(chess_board, parse_uci(chess_board, last_uci))
           /\ state_board' = populate_state_board(chess_board', captured_white', captured_black',
                                                  white_promos', black_promos')
           /\ node_grid' = populate_node_grid(state_board')
    /\ last_op' = "move" => last_op = "plan"

\* C29: in every turn the path is planned on the position before the move,
\* every command line is sent in the order of the list, and then move_piece
\* is applied once for that move; move_piece leaves the state grid and from
\* it the node grid regenerated, so the next turn plans on grids that show
\* the completed move
C29_TurnOrder == []C29_Between /\ [][C29_Step]_vars

\* the second turn's lines have all been sent and its move_piece is due
C29_Witness ==
    /\ last_op = "plan"
    /\ Len(chess_board.move_stack) = 1
    /\ Len(generate_gcode(path_seq)) > 3
    /\ line_no = Len(generate_gcode(path_seq))
    /\ pc = "call"

\* a capture's turn is half sent: the capture leg is out, the mover's leg
\* is under way
C29_WitnessMidTurn ==
    /\ last_op = "plan"
    /\ Len(path_seq) = 2
    /\ line_no > Len(path_seq[1][2]) + 3
    /\ line_no < Len(generate_gcode(path_seq))

\* the third turn is being planned on the grids the second left
C29_WitnessNextTurn ==
    /\ last_op = "plan"
    /\ Len(chess_board.move_stack) = 2
    /\ line_no = 0

(***************************************************************************)
(* C24  Sentinels and the servo                                            *)
(***************************************************************************)
\* what send_gcode_line has written and the controller has not yet taken
\* holds no sentinel
C24_NoSentinelWritten == \A k \in 1..Len(tx) : ~IsSentinel(tx[k])

\* a report of Idle lies in the buffer that answers a query written when
\* the first n lines of the turn, the last motion line among them, were out
IdleReported(n) ==
    \E k \in 1..Len(rx) :
        /\ rx[k][1] = "status" /\ rx[k][2] = "Idle"
        /\ rx[k][3] >= LastMotion(generate_gcode(path_seq), n)
        /\ \A j \in 1..(k - 1) : ~(rx[j][1] = "status" /\ rx[j][2] = "Idle")

C24_Step ==
    /\ Len(tx') > Len(tx) => ~IsSentinel(tx'[Len(tx')])
    /\ servo' # servo =>
           /\ IsSentinel(generate_gcode(path_seq)[line_no + 1])
           /\ LastMotion(generate_gcode(path_seq), line_no) = line_no
           /\ IdleReported(line_no)
           /\ tx = <<>>

\* C24: send_gcode_line never writes servo_up or servo_down to the motion
\* controller, and the servo is moved for a sentinel only after the
\* controller has reported Idle in answer to a status query that was written
\* after the last motion line
C24_ServoAfterIdle == []C24_NoSentinelWritten /\ [][C24_Step]_vars

\* the servo has been raised for the sentinel that follows the rapid move
\* of a capture's first leg, the controller at rest and nothing in transit
C24_Witness ==
    /\ servo = "up"
    /\ last_op = "plan"
    /\ Len(path_seq) = 2
    /\ line_no = 2
    /\ ~moving /\ tx = <<>>

\* the servo has been lowered again at the end of a leg
C24_WitnessDown ==
    /\ servo = "down"
    /\ last_op = "plan"
    /\ line_no = Len(generate_gcode(path_seq))
    /\ line_no > 0

\* the controller did not come to rest in time after the rapid move:
\* TimeoutError, and the servo stays down
C24_WitnessTimeout == pc = "timeout" /\ servo = "down" /\ line_no = 0 /\ moving

(***************************************************************************)
(* C30  One motion line at a time                                          *)
(***************************************************************************)
\* the step writes a motion line to the controller
MotionWritten == Len(tx') > Len(tx) /\ tx'[Len(tx')][1] # "?"

\* the motion lines written that the controller has not taken, and so has
\* not answered
Unanswered == {k \in 1..Len(tx) : tx[k][1] # "?"}

C30_Step ==
    \* the next motion line goes out only when the one before is answered
    /\ MotionWritten => Unanswered = {}
    \* an answer other than "ok" is passed over and nothing is written
    /\ (pc = "ack" /\ rx # <<>> /\ Len(rx') < Len(rx) /\ Head(rx) # <<"ok">>) =>
           pc' = "ack" /\ tx' = tx /\ line_no' = line_no
    \* with a sentinel next, the function returns only through the wait for
    \* Idle
    /\ (pc = "ack" /\ pc' = "call") =>
           ~IsSentinel(next_line(generate_gcode(path_seq), line_no))
    /\ (pc = "poll_next" /\ pc' = "call") =>
           \E k \in 1..Len(rx) : rx[k][1] = "status" /\ rx[k][2] = "Idle"

\* C30: send_gcode_line sends the next motion line only after the controller
\* has answered "ok" for the one before; answers other than "ok" are passed
\* over without anything being sent; and when the line after the current one
\* is a sentinel the function waits for Idle as well before it returns
C30_OneLineAtATime == [][C30_Step]_vars

\* the first G1 of a leg has been written and not yet taken by the
\* controller, and the "ok" that answered the empty line of the last status
\* query lies in the input buffer as the next thing to be read
C30_Witness ==
    /\ pc = "ack"
    /\ line_no = 2
    /\ Unanswered # {}
    /\ rx # <<>> /\ Head(rx) = <<"ok">>

(***************************************************************************)
(* C31  What reset_board_physical leaves behind                            *)
(***************************************************************************)
\* the step of reset_board_physical
ResetStep == last_op # "reset" /\ last_op' = "reset"

\* every starting square of the tracked layout holds the kind designated for it
StartsFilled(grid) ==
    \A i \in 1..Len(StartSquares) :
        grid[CellNode(StartSquares[i][2])] = StartSquares[i][1]

\* the cells the emitted paths start from
PathStarts(legs) == {legs[i][2][1] : i \in {j \in 1..Len(legs) : legs[j][2] # <<>>}}

\* no path is emitted for a piece that already stood on a valid starting
\* square of its kind
LockedKept ==
    \A cell \in InitiallyLocked(state_board) :
        CellNode(cell) \notin PathStarts(path_seq')

C31_LockedKept == [][ResetStep => LockedKept]_vars

\* C31: at the end of a game reached by legal moves, reset_board_physical
\* finishes with every starting square of its tracked layout (board squares
\* and promotion-lane squares) holding the piece kind designated for it, and
\* it emits no path for a piece that already stood on a valid starting
\* square of its kind
C31_Refill == [][ResetStep => (StartsFilled(node_grid') /\ LockedKept)]_vars

\* the state grid holds as many pieces of every kind as the kind has starting
\* squares
FullSet(board) ==
    \A k \in 1..Len(starting_positions) :
        Cardinality({cell \in StateCells : board[cell] = starting_positions[k][1]})
            = Len(starting_positions[k][2])

\* with the full set of pieces on the state grid the reset fills every
\* starting square
C31_RefillFullSet == [][(ResetStep /\ FullSet(state_board)) => StartsFilled(node_grid')]_vars

\* a reset that carried pieces and filled every starting square
C31_Witness ==
    /\ last_op = "reset"
    /\ path_seq # <<>>
    /\ FullSet(state_board)
    /\ StartsFilled(node_grid)

\* a reset of a state grid that a promotion without a bank piece left with
\* a pawn too few: a starting square stays empty
C31_WitnessShortSet ==
    /\ last_op = "reset"
    /\ ~FullSet(state_board)
    /\ ~StartsFilled(node_grid)

(***************************************************************************)
(* C36  A free capture slot beside a diagonal step                         *)
(***************************************************************************)
\* a cell a piece can be carried over: empty, or a capture slot showing its
\* number
Traversable(cell) == cell = "." \/ IsDigit(cell)

DiagonalDirs == {<<-1, -1>>, <<-1, 1>>, <<1, -1>>, <<1, 1>>}

\* the diagonal steps on the grid whose target and both corner cells are
\* traversable and of which one corner is a free capture slot
StepsPastFreeSlot(grid) ==
    {s \in {<<a, <<a[1] + d[1], a[2] + d[2]>>>> :
               a \in (0..(node_rows - 1)) \X (0..(node_cols - 1)), d \in DiagonalDirs} :
        /\ s[2][1] \in 0..(node_rows - 1) /\ s[2][2] \in 0..(node_cols - 1)
        /\ grid[s[2]] = "."
        /\ Traversable(grid[<<s[1][1], s[2][2]>>])
        /\ Traversable(grid[<<s[2][1], s[1][2]>>])
        /\ IsDigit(grid[<<s[1][1], s[2][2]>>]) \/ IsDigit(grid[<<s[2][1], s[1][2]>>])}

\* the steps among them that neighbors() does not offer (the goal is the
\* step's start, so that no cell passes as the goal)
BarredPastFreeSlot(grid) ==
    {s \in StepsPastFreeSlot(grid) :
        s[2] \notin neighbors(grid, s[1][1], s[1][2], s[1])}

\* C36: in the diagonal-step check of neighbors() a free capture slot (a cell
\* showing its number) counts like an empty cell: a diagonal step with a free
\* capture slot at a corner is allowed
C36_FreeSlotLikeEmpty == BarredPastFreeSlot(node_grid) = {}

\* a diagonal step past a free capture slot is barred while the same step
\* past the slot's cell holding '.' is offered
C36_Witness ==
    /\ Planned
    /\ \E s \in BarredPastFreeSlot(node_grid) :
           LET corner == IF IsDigit(node_grid[<<s[1][1], s[2][2]>>])
                         THEN <<s[1][1], s[2][2]>> ELSE <<s[2][1], s[1][2]>>
           IN s[2] \in neighbors([node_grid EXCEPT ![corner] = "."],
                                 s[1][1], s[1][2], s[1])

(***************************************************************************)
(* C32  Later legs and the nodes where earlier legs ended                  *)
(***************************************************************************)
\* the legs of the list that have a path
Routed == {i \in 1..Len(path_seq) : path_seq[i][2] # <<>>}

LegEnd(i) == path_seq[i][2][Len(path_seq[i][2])]

\* the pairs (earlier leg, later leg) where the later leg's path has the
\* earlier leg's end node at one of the positions given, other than as its
\* own last node
Crossings(from) ==
    {p \in Routed \X Routed :
        /\ p[1] < p[2]
        /\ \E j \in from..(Len(path_seq[p[2]][2]) - 1) :
               path_seq[p[2]][2][j] = LegEnd(p[1])}

\* C32: within one leg list returned by plan_path no later leg's path passes
\* through a node at which an earlier leg of the list ended, unless that node
\* is the later leg's own goal (the later leg's first node is left aside: the
\* last leg of a promotion takes the pawn on from where its first leg ended)
C32_NoCrossing == Planned => Crossings(2) = {}

\* a promotion with a capture is planned, and the pawn's leg to the bank
\* passes over the capture slot where the capture leg has just ended
C32_Witness ==
    /\ Planned
    /\ \E p \in Crossings(2) :
           /\ path_seq[p[1]][1] = "capture"
           /\ path_seq[p[2]][1] = "promotion_pawn"
           /\ IsDigit(node_grid[LegEnd(p[1])])

(***************************************************************************)
(* C33  The slot a capture is routed to and the slot it is booked in       *)
(***************************************************************************)
\* the capture slots that show a number before move_piece and a piece after
NewlyFilled ==
    {cell \in StateCells :
        IsDigit(state_board[cell]) /\ state_board'[cell] \in PieceSymbols}

\* move_piece applies the move that has just been planned
MovedAsPlanned == Planned /\ Moved /\ last_uci' = last_uci

C33_Step ==
    (MovedAsPlanned /\ Victim(chess_board, PlannedMove) # None) =>
        /\ Cardinality(LegsOf("capture")) = 1
        /\ \A i \in LegsOf("capture") :
               /\ path_seq[i][2] # <<>>
               /\ \E cell \in NewlyFilled :
                      /\ NewlyFilled = {cell}
                      /\ state_board'[cell] = Victim(chess_board, PlannedMove)
                      /\ LegEnd(i) = <<2 * cell[1], 2 * cell[2]>>

\* C33: for every capturing move the last node of the capture leg planned by
\* plan_path on the state before the move is (2r, 2c), (r, c) being the cell
\* of the state grid where the captured piece's symbol appears once
\* move_piece has applied the same move
C33_SlotAgrees == [][C33_Step]_vars

\* a capture planned while slots of the colour are taken already: the plan
\* ends on the first slot still showing its number
C33_Witness ==
    /\ Planned
    /\ Victim(chess_board, PlannedMove) = "p"
    /\ Len(captured_black) >= 2
    /\ \E i \in LegsOf("capture") :
           LegEnd(i) = <<2 * black_captures[Len(captured_black) + 1][1],
                         2 * black_captures[Len(captured_black) + 1][2]>>
    /\ ENABLED MovePiece(last_uci)

(***************************************************************************)
(* C34  The pieces on the state grid are conserved                         *)
(***************************************************************************)
\* how often a symbol stands on a grid
SymbolCount(board, sym) == Cardinality({cell \in DOMAIN board : board[cell] = sym})

\* the same pieces stand on two grids, wherever they stand
SamePieces(a, b) == \A sym \in PieceSymbols : SymbolCount(a, sym) = SymbolCount(b, sym)

\* move_piece applies a legal move
MovedLegal == Moved /\ is_legal(chess_board, AppliedMove)

\* C34: after any sequence of legal moves applied by move_piece the multiset
\* of piece symbols on the whole state grid (board squares, capture slots and
\* both promotion lanes) is that of the initial state grid: a move only
\* relocates pieces, none appears or disappears
C34_Conserved == [][MovedLegal => SamePieces(state_board', state_board)]_vars

\* the same for the moves that find what they need in the bank
C34_ConservedBanked ==
    [][(MovedLegal /\ (Len(last_uci') = 5 =>
                         ~BankLacks(chess_board, white_promos, black_promos, last_uci'))) =>
          SamePieces(state_board', state_board)]_vars

\* a recorded game of legal moves has been applied and the state grid holds
\* a knight more and a pawn less than at the start
C34_Witness ==
    /\ last_op = "move"
    /\ chess_board.move_stack \in GameStacks
    /\ SymbolCount(state_board, "N") = 5
    /\ SymbolCount(state_board, "P") = 7

\* a promotion served from the bank: the pawn stands in the bank, the board
\* holds the bank's piece, the count of every symbol is what it was
C34_WitnessBanked ==
    /\ last_op = "move"
    /\ chess_board.move_stack \in GameStacks
    /\ Len(last_uci) = 5
    /\ FullSet(state_board)

(***************************************************************************)
(* C35  The engines of run_game                                            *)
(***************************************************************************)
\* the loop has just taken the computer-move branch
TookComputerBranch == run'.branch = "computer" /\ run' # run

\* C35: in run_game, for every mode and colour choice, whenever the loop
\* takes the computer-move branch for the side to move an engine for that
\* side has been started and configured (the selected engine is never
\* absent), and every engine that was started is quit when the game is over
C35_Engines ==
    /\ [][TookComputerBranch => run'.engine # Absent]_vars
    /\ [](run.at = "over" =>
             \A e \in {run.white_engine, run.black_engine} :
                 \A i \in 1..Len(e) : e[i].quit)

\* the second half alone: the engines started are quit when the game is over
C35_Quit ==
    run.at = "over" =>
        \A e \in {run.white_engine, run.black_engine} : \A i \in 1..Len(e) : e[i].quit

\* the human plays White against the computer: Black is to move, the
\* computer-move branch is taken and no engine was ever started
C35_Witness ==
    /\ run.mode = "1"
    /\ run.HUMAN_PLAYS_WHITE
    /\ run.branch = "computer"
    /\ run.engine = Absent
    /\ run.black_engine = Absent
    /\ run.at = "raised"

\* computer against computer: the game is over and both engines are quit
C35_WitnessQuit ==
    /\ run.mode = "2"
    /\ run.at = "over"
    /\ Len(run.white_engine) = 1 /\ run.white_engine[1].quit
    /\ Len(run.black_engine) = 1 /\ run.black_engine[1].quit

(***************************************************************************)
(* C37  interpret_human_move and a move of one piece                       *)
(***************************************************************************)
\* the hand has made one complete move of one piece: a piece lifted from a
\* board square and put down on a board square
GestureComplete ==
    /\ interp.at \in {"loop", "returned"}
    /\ Len(interp.events) = 2
    /\ interp.events[1][1] = "lift"
    /\ is_game_square(interp.events[1][2][1], interp.events[1][2][2])
    /\ interp.events[2][1] = "place"
    /\ is_game_square(interp.events[2][2][1], interp.events[2][2][2])

\* the piece the first lift took off the board
Lifted ==
    IF GestureComplete
    THEN piece_at(chess_board,
                  parse_square(state_to_uci(interp.events[1][2][1], interp.events[1][2][2])))
    ELSE None

\* the function has returned the origin square followed by the square of
\* the placement
GestureReturned ==
    /\ interp.at = "returned"
    /\ Len(interp.events) >= 2
    /\ is_game_square(interp.events[1][2][1], interp.events[1][2][2])
    /\ interp.result = state_to_uci(interp.events[1][2][1], interp.events[1][2][2])
                       \o state_to_uci(interp.events[2][2][1], interp.events[2][2][2])

\* C37: interpret_human_move eventually returns for every complete move of
\* one piece (one lift from a board square, then one placement on a board
\* square), whatever the kind of the piece, a king moving without castling
\* included, and returns the origin square followed by the placement square
C37_Returns == GestureComplete ~> GestureReturned

\* the same for every piece but a king
C37_ReturnsUnlessKing ==
    (GestureComplete /\ PieceType(Lifted) # "K") ~> GestureReturned

\* the king has been lifted from e1 and put down on e2, the loop has read
\* both changes and goes on waiting for a rook to be lifted
C37_Witness ==
    /\ interp.at = "loop"
    /\ interp.events = << <<"lift", <<8, 6>>>>, <<"place", <<7, 6>>>> >>
    /\ Lifted = "K"
    /\ interp.previous = interp.matrix
    /\ interp.mode = "castle" /\ interp.phase = 2
    /\ ~ENABLED <<InterpretPoll>>_vars

\* a knight has been lifted from g1 and put down on f3 and the function has
\* returned g1f3
C37_WitnessKnight ==
    /\ GestureComplete
    /\ Lifted = "N"
    /\ interp.result = <<"g", "1", "f", "3">>
====
